---- MODULE Spec2Model ----
(***************************************************************************)
(* Model of the resilient task-execution pipeline of ALIEN:                *)
(*   - the output processor (processHourlyOutput, processJournalOutput,    *)
(*     processActivityOutput),                                             *)
(*   - the completion client (generateContent),                            *)
(*   - the deploy trigger (triggerDeploy).                                 *)
(* Each component has its own specification over the shared variable list; *)
(* a component's actions leave the other components' variables unchanged.  *)
(***************************************************************************)
EXTENDS Integers, Sequences, FiniteSets, TLC

\* ------------------------------------------------------------------ bounds
\* longest response content (in characters) handed to the content pipeline
MaxContentLen == 2
\* longest activities array in a decision document
MaxActivities == 1
\* startScheduler calls in one behaviour
MaxStarts == 2
\* handler invocations followed in one behaviour
MaxRuns == 2
\* direct registerTask calls in one behaviour
MaxRegisters == 2
\* largest number of runway days tried
MaxDays == 15
\* updateMetrics calls in one behaviour
MaxUpdates == 2
\* incrementShipped calls of one handler in one behaviour
MaxIncrements == 2
\* health interval firings in one behaviour
MaxBeats == 2
\* runFirstWake calls in one behaviour
MaxWakes == 3
MaxWriters == 2

\* --------------------------------------------------------------- variables
VARIABLES
    \* output processor
    pKind,          \* which process*Output call is in flight
    pPc,            \* position of the call
    response,       \* the ClaudeResponse argument
    content,        \* the parsed (trimmed) content
    decision,       \* <<>> (undefined) or <<doc>>: the parsed ActivityDecision
    localSaved, memorySaved, deployed, metricsUpdated,
    errors,         \* the errors array of the call
    result,         \* the value the call resolved with (meaningful at pPc = "done")
    callLog,        \* dependency functions invoked by the call, in order
    stageLog,       \* the stages attempted by the call and whether each succeeded
    \* completion client
    cPc, attempt, lastError, cOutcomes, cSleeps, cResult, cRaised,
    \* deploy trigger
    dPc, dAttempt, dOutcomes, dSleeps, dResult,
    \* retry loops of the tasks (callClaudeAPI, the hourly task's triggerDeploy,
    \* decideActivity): the function in flight, its position, its loop counter,
    \* what each transport call did, the sleeps taken, the value it settled with
    tFn, tPc, tAttempt, tOutcomes, tSleeps, tResult,
    \* scheduler
    tasks,          \* the registry: entries [name, schedule, job], job = 0 while unset
    jobs,           \* every cron job created so far: [name, schedule, active]
    sLast,          \* the last of startScheduler / stopScheduler to return
    starts,         \* startScheduler calls so far
    runs,           \* wrapped handler invocations, in firing order: [name, pc,
                    \* stopped (fired while stopped), failedBefore (tasks
                    \* whose handler had failed), overtook (invocations
                    \* sleeping since before this one started)]
    sErrors,        \* logger.error events of registerTask
    regLog,         \* direct registerTask calls and what each did
    \* runway tracker and urgency functions
    rConfig,        \* _config: <<>> or <<INITIAL_RUNWAY_DAYS as parsed>>
    rFile,          \* .alien/runway.json: <<>> (no file) or <<state>>
    rGot,           \* <<>> or <<value>>: what the last getRunwayDays returned
    rLast,          \* <<>> or <<n>>: the argument of the last updateRunwayDays
    uDays,          \* the argument of the last urgency call
    uLevel,         \* what each urgency function returned for uDays
    \* metrics store
    mCache,         \* cachedMetrics: <<>> (null) or <<record>>
    mFile,          \* .alien/metrics.json: <<>> (no file) or <<record>>
    mRemote,        \* the record mirrored to the remote store, <<>> when none
    mHeap,          \* the keyMetrics objects: object 0 is DEFAULT_METRICS.keyMetrics
    mHeld,          \* <<>> or <<object>>: the object a caller got last
    mCall,          \* the updateMetrics call that has just returned or thrown
    mUpdates,       \* updateMetrics calls so far
    mIncs,          \* incrementShipped calls so far, per handler
    mIncLog,        \* what each incrementShipped call read and returned
    \* hourly update task
    hPc,            \* position of the runHourlyUpdate call
    hDay,           \* day, as read when the call started
    hRemaining,     \* daysRemaining, as read when the call started
    hLog,           \* the steps the call has made, in order
    hLanding,       \* landing.json: <<>> (no file) or <<record>>
    hResult,        \* "none", or the success member of what the call returned
    \* process entry point
    xPc,            \* "starting", "up", "exited" (process.exit(0)) or "rejected"
    xInterval,      \* the health interval is set
    xHealth,        \* .alien/health.json: <<>> (no file) or <<record>>
    xBeats,         \* updateHealthTimestamp calls so far
    xLog,           \* what the shutdown handler did, in order
    \* first wake
    wPc,            \* position of the runFirstWake call
    wFlag,          \* the first-wake flag file exists
    wWakes,         \* runFirstWake calls so far (retries and restarts included)
    wGenerated,     \* completions received by runFirstWake calls
    wInits,         \* completed initializeTrackers calls
    wSaves,         \* completed writes of day1_hour0.json
    wLog,           \* what the call in flight, or the last one, did
    wResult,        \* "none", "completed", "already" or "failed"
    kPc, kTemp, kDest, kGen, kFd, kText

pvars == <<pKind, pPc, response, content, decision, localSaved, memorySaved,
           deployed, metricsUpdated, errors, result, callLog, stageLog>>
cvars == <<cPc, attempt, lastError, cOutcomes, cSleeps, cResult, cRaised>>
dvars == <<dPc, dAttempt, dOutcomes, dSleeps, dResult>>
tvars == <<tFn, tPc, tAttempt, tOutcomes, tSleeps, tResult>>
svars == <<tasks, jobs, sLast, starts, runs, sErrors, regLog>>
rvars == <<rConfig, rFile, rGot, rLast, uDays, uLevel>>
mvars == <<mCache, mFile, mRemote, mHeap, mHeld, mCall, mUpdates, mIncs, mIncLog>>
hvars == <<hPc, hDay, hRemaining, hLog, hLanding, hResult>>
xvars == <<xPc, xInterval, xHealth, xBeats, xLog>>
wvars == <<wPc, wFlag, wWakes, wGenerated, wInits, wSaves, wLog, wResult>>
kvars == <<kPc, kTemp, kDest, kGen, kFd, kText>>
vars == <<pvars, cvars, dvars, tvars, svars, rvars, mvars, hvars, xvars, wvars, kvars>>

\* ----------------------------------------------------------------- helpers
RECURSIVE SeqsUpTo(_, _)
SeqsUpTo(S, n) ==
    IF n = 0 THEN {<<>>}
    ELSE LET shorter == SeqsUpTo(S, n - 1)
         IN shorter \cup {Append(s, x) : s \in {t \in shorter : Len(t) = n - 1}, x \in S}

CountIn(s, P(_)) == Cardinality({i \in 1..Len(s) : P(s[i])})

\* =========================================================================
\* Output processor
\* =========================================================================

\* characters of a response content; " " stands for any whitespace
Chars == {" ", "a"}
Whitespace == {" "}
\* response.content: undefined, or a string
Missing == <<"undefined">>
Contents == {Missing} \cup SeqsUpTo(Chars, MaxContentLen)

RECURSIVE TrimLeft(_)
TrimLeft(s) ==
    IF s # <<>> /\ Head(s) \in Whitespace THEN TrimLeft(Tail(s)) ELSE s

RECURSIVE TrimRight(_)
TrimRight(s) ==
    IF s # <<>> /\ s[Len(s)] \in Whitespace
    THEN TrimRight(SubSeq(s, 1, Len(s) - 1)) ELSE s

Trim(s) == TrimRight(TrimLeft(s))

EmptyResponseMsg == "Empty response content from Claude"

\* parseContent without the trim: whitespace-only content passes
parseContent_noTrim(c) ==
    IF c = Missing \/ c = <<>>
    THEN [ok |-> FALSE, value |-> <<>>, error |-> EmptyResponseMsg]
    ELSE [ok |-> TRUE, value |-> c, error |-> ""]

\* parseContent: [ok |-> FALSE, error] when it throws, else [ok |-> TRUE, value]
parseContent(c) ==
    IF c = Missing \/ c = <<>>
    THEN [ok |-> FALSE, value |-> <<>>, error |-> EmptyResponseMsg]
    ELSE IF Trim(c) = <<>>
         THEN [ok |-> FALSE, value |-> <<>>, error |-> EmptyResponseMsg]
         ELSE [ok |-> TRUE, value |-> Trim(c), error |-> ""]

createFailedResult(errs) ==
    [success |-> FALSE, localSaved |-> FALSE, memorySaved |-> FALSE,
     deployed |-> FALSE, metricsUpdated |-> FALSE, errors |-> errs,
     decision |-> <<>>]

\* a result that reports success whatever the local write did
contentResult_alwaysSuccess(ls, ms, dp, mu, errs) ==
    [success |-> TRUE, localSaved |-> ls, memorySaved |-> ms, deployed |-> dp,
     metricsUpdated |-> mu, errors |-> errs, decision |-> <<>>]

\* a result whose success needs every stage, not only the local write
contentResult_allStages(ls, ms, dp, mu, errs) ==
    [success |-> ls /\ ms /\ dp /\ mu, localSaved |-> ls, memorySaved |-> ms,
     deployed |-> dp, metricsUpdated |-> mu, errors |-> errs, decision |-> <<>>]

\* the result of a content pipeline that ran to its last step:
\* "const success = localSaved" and the returned object
contentResult(ls, ms, dp, mu, errs) ==
    [success |-> ls, localSaved |-> ls, memorySaved |-> ms, deployed |-> dp,
     metricsUpdated |-> mu, errors |-> errs, decision |-> <<>>]

\* ---- the decision document carried by an activity response
ActivityTypes == {"BUILD", "WRITE", "RESEARCH", "ANALYZE", "ITERATE", "SHIP"}
\* activity types tried as input: two of the enum and one outside it
InputTypes == {"BUILD", "SHIP", "DANCE"}

Activities ==
    [type : InputTypes, action : {"", "ship the tool"},
     reasoning : {"", "it earns revenue"}, duration_minutes : {0, 30}]

\* parsed.activities: not an array, or an array of activities
ActivityArrays ==
    {[isArray |-> FALSE, items |-> <<>>]}
    \cup {[isArray |-> TRUE, items |-> s] : s \in SeqsUpTo(Activities, MaxActivities)}

\* parsed.urgency_assessment: "undefined" stands for a missing or non-string value
UrgencyValues == {"undefined", "runway is short"}

\* parsed.confidence_in_strategy, as a percentage when it is a number
ConfidenceValues ==
    {[isNumber |-> FALSE, value |-> 0]}
    \cup {[isNumber |-> TRUE, value |-> v] : v \in {39, 40, 49, 50}}

\* parsed.strategy_notes: absent, a string (a sequence of words) or a number
NotesValues ==
    {[type |-> "undefined", text |-> <<>>], [type |-> "number", text |-> <<"7">>]}
    \cup {[type |-> "string", text |-> t] :
            t \in {<<>>, <<"stay", "the", "course">>, <<"time", "to", "pivot">>,
                   <<"PIVOT", "now">>}}

Docs ==
    [activities : ActivityArrays, urgency_assessment : UrgencyValues,
     confidence_in_strategy : ConfidenceValues, strategy_notes : NotesValues]

DefaultDoc ==
    [activities |-> [isArray |-> FALSE, items |-> <<>>],
     urgency_assessment |-> "undefined",
     confidence_in_strategy |-> [isNumber |-> FALSE, value |-> 0],
     strategy_notes |-> [type |-> "undefined", text |-> <<>>]]

\* A ClaudeResponse: content is the character string, form says what its
\* non-blank characters spell (prose, a JSON document, a fenced JSON document,
\* or text that is not JSON) and doc is the document spelled.
ContentResponses ==
    {[content |-> c, form |-> "prose", doc |-> DefaultDoc] : c \in Contents}

ActivityResponses ==
    {[content |-> c, form |-> "garbage", doc |-> DefaultDoc] : c \in Contents}
    \cup {[content |-> <<"a">>, form |-> f, doc |-> d] :
            f \in {"json", "fenced"}, d \in Docs}

\* String.prototype.toLowerCase, word by word
ToLowerCase(w) ==
    CASE w = "PIVOT" -> "pivot"
      [] w = "Pivot" -> "pivot"
      [] w = "Rate" -> "rate"
      [] w = "Limit" -> "limit"
      [] OTHER -> w

\* text.toLowerCase().includes("pivot")
IncludesPivot(text) == \E i \in 1..Len(text) : ToLowerCase(text[i]) = "pivot"

\* JavaScript truthiness of strategy_notes
Truthy(notes) ==
    \/ notes.type = "number"
    \/ notes.type = "string" /\ notes.text # <<>>

\* a validation loop that checks action and reasoning but not the type
FirstBadActivity_typesUnchecked(items) ==
    IF \E i \in 1..Len(items) : items[i].action = "" \/ items[i].reasoning = ""
    THEN CHOOSE i \in 1..Len(items) :
          /\ items[i].action = "" \/ items[i].reasoning = ""
          /\ \A j \in 1..(i - 1) : items[j].action # "" /\ items[j].reasoning # ""
    ELSE 0

\* the first activity the validation loop rejects, 0 when none
FirstBadActivity(items) ==
    IF \E i \in 1..Len(items) :
          \/ items[i].type \notin ActivityTypes
          \/ items[i].action = "" \/ items[i].reasoning = ""
    THEN CHOOSE i \in 1..Len(items) :
          /\ \/ items[i].type \notin ActivityTypes
             \/ items[i].action = "" \/ items[i].reasoning = ""
          /\ \A j \in 1..(i - 1) :
                /\ items[j].type \in ActivityTypes
                /\ items[j].action # "" /\ items[j].reasoning # ""
    ELSE 0

\* parseActivityDecision: [ok |-> FALSE, error] when it throws, else the document
parseActivityDecision(r) ==
    LET c == parseContent(r.content)
        d == r.doc
        bad == FirstBadActivity(d.activities.items)
        fail(msg) == [ok |-> FALSE, value |-> DefaultDoc, error |-> msg]
    IN IF ~c.ok THEN fail(c.error)
       ELSE IF r.form \notin {"json", "fenced"}
            THEN fail("Failed to parse activity decision JSON: Unexpected token")
       ELSE IF ~d.activities.isArray
            THEN fail("Failed to parse activity decision JSON: Missing activities array")
       ELSE IF d.urgency_assessment = "undefined"
            THEN fail("Failed to parse activity decision JSON: Missing urgency_assessment")
       ELSE IF ~d.confidence_in_strategy.isNumber
            THEN fail("Failed to parse activity decision JSON: Missing confidence_in_strategy")
       ELSE IF bad # 0 /\ d.activities.items[bad].type \notin ActivityTypes
            THEN fail("Failed to parse activity decision JSON: Invalid activity type")
       ELSE IF bad # 0
            THEN fail("Failed to parse activity decision JSON: Activity missing action or reasoning")
       ELSE [ok |-> TRUE, value |-> d, error |-> ""]


\* ---- state of the output processor before any call
InitProcessor ==
    /\ pKind = "none"
    /\ pPc = "idle"
    /\ response = [content |-> Missing, form |-> "prose", doc |-> DefaultDoc]
    /\ content = <<>>
    /\ decision = <<>>
    /\ localSaved = FALSE
    /\ memorySaved = FALSE
    /\ deployed = FALSE
    /\ metricsUpdated = FALSE
    /\ errors = <<>>
    /\ result = createFailedResult(<<>>)
    /\ callLog = <<>>
    /\ stageLog = <<>>

Settled == pPc = "idle"

Stage(name, ok) == [stage |-> name, ok |-> ok]

\* processHourlyOutput / processJournalOutput, from the call to the end of
\* step 1 (parse content)
StartContent ==
    /\ UNCHANGED <<cvars, dvars, tvars, svars, rvars, mvars, hvars, xvars, wvars, kvars>>
    /\ Settled
    /\ decision' = <<>>
    /\ localSaved' = FALSE
    /\ memorySaved' = FALSE
    /\ deployed' = FALSE
    /\ metricsUpdated' = FALSE
    /\ errors' = <<>>
    /\ callLog' = <<>>
    /\ \E kind \in {"hourly", "journal"}, r \in ContentResponses :
          /\ pKind' = kind
          /\ response' = r
          /\ LET p == parseContent(r.content)
             IN IF p.ok
                THEN /\ content' = p.value
                     /\ stageLog' = <<Stage("parse", TRUE)>>
                     /\ pPc' = "gather"
                     /\ result' = createFailedResult(<<>>)
                ELSE /\ content' = <<>>
                     /\ stageLog' = <<Stage("parse", FALSE)>>
                     /\ result' = createFailedResult(<<p.error>>)
                     /\ pPc' = "done"

\* step 2 without the return in its catch block
AfterGather_continue(runway, metrics) == "local"

\* where step 2 leads: on to step 3, or out through the catch block's return
AfterGather(runway, metrics) ==
    IF runway = "ok" /\ metrics = "ok" THEN "local" ELSE "done"

\* step 2: Promise.all([getRunwayStatus(), getMetrics()])
GatherStatus(runway, metrics) ==
    /\ UNCHANGED <<cvars, dvars, tvars, svars, rvars, mvars, hvars, xvars, wvars, kvars>>
    /\ pPc = "gather"
    /\ callLog' = callLog \o <<"getRunwayStatus", "getMetrics">>
    /\ stageLog' = Append(stageLog, Stage("gather", runway = "ok" /\ metrics = "ok"))
    /\ IF AfterGather(runway, metrics) = "local"
       THEN /\ pPc' = "local"
            /\ UNCHANGED result
       ELSE \* Promise.all rejects with whichever rejection comes first
            /\ \E msg \in {m \in {"Status unavailable", "Metrics unavailable"} :
                             \/ m = "Status unavailable" /\ runway = "throw"
                             \/ m = "Metrics unavailable" /\ metrics = "throw"} :
                  result' = createFailedResult(<<msg>>)
            /\ pPc' = "done"
    /\ UNCHANGED <<pKind, response, content, decision, localSaved, memorySaved,
                   deployed, metricsUpdated, errors>>

\* step 3 with a return in its catch block
AfterLocalSave_abort(outcome) == IF outcome = "ok" THEN "memory" ELSE "done"

\* step 3 followed by step 5
AfterLocalSave_skipMemory(outcome) == "landing"

\* where step 3 leads: its catch block records the error and falls through
AfterLocalSave(outcome) == "memory"

\* step 3: contentWriter.writeHourlyUpdate / writeDailyJournal (critical)
LocalSave(outcome) ==
    /\ UNCHANGED <<cvars, dvars, tvars, svars, rvars, mvars, hvars, xvars, wvars, kvars>>
    /\ pPc = "local"
    /\ callLog' = Append(callLog, IF pKind = "hourly" THEN "writeHourlyUpdate"
                                  ELSE "writeDailyJournal")
    /\ stageLog' = Append(stageLog, Stage("local", outcome = "ok"))
    /\ IF outcome = "ok"
       THEN /\ localSaved' = TRUE
            /\ UNCHANGED errors
       ELSE /\ errors' = Append(errors, "Local save failed: Disk full")
            /\ UNCHANGED localSaved
    /\ pPc' = AfterLocalSave(outcome)
    /\ UNCHANGED <<pKind, response, content, decision, memorySaved, deployed,
                   metricsUpdated, result>>

\* step 4: memoryStore.storeHourlyUpdate / storeDailyJournal (best effort)
MemoryStore(outcome) ==
    /\ UNCHANGED <<cvars, dvars, tvars, svars, rvars, mvars, hvars, xvars, wvars, kvars>>
    /\ pPc = "memory"
    /\ callLog' = Append(callLog, IF pKind = "hourly" THEN "storeHourlyUpdate"
                                  ELSE "storeDailyJournal")
    /\ stageLog' = Append(stageLog, Stage("memory", outcome = "ok"))
    /\ CASE outcome = "ok" ->
              /\ memorySaved' = TRUE
              /\ UNCHANGED errors
         [] outcome = "unsuccessful" ->
              /\ memorySaved' = FALSE
              /\ errors' = Append(errors, "Memory store returned unsuccessful")
         [] OTHER ->
              /\ errors' = Append(errors, "Memory store failed: Memory unavailable")
              /\ UNCHANGED memorySaved
    /\ pPc' = "landing"
    /\ UNCHANGED <<pKind, response, content, decision, localSaved, deployed,
                   metricsUpdated, result>>

\* step 5: contentWriter.updateLanding (best effort)
UpdateLanding(outcome) ==
    /\ UNCHANGED <<cvars, dvars, tvars, svars, rvars, mvars, hvars, xvars, wvars, kvars>>
    /\ pPc = "landing"
    /\ callLog' = Append(callLog, "updateLanding")
    /\ stageLog' = Append(stageLog, Stage("landing", outcome = "ok"))
    /\ IF outcome = "ok"
       THEN /\ metricsUpdated' = TRUE
            /\ UNCHANGED errors
       ELSE /\ errors' = Append(errors, "Landing update failed: Landing error")
            /\ UNCHANGED metricsUpdated
    /\ pPc' = "deploy"
    /\ UNCHANGED <<pKind, response, content, decision, localSaved, memorySaved,
                   deployed, result>>

\* step 6: deployTrigger.triggerDeploy (best effort), then the return
Deploy(outcome) ==
    /\ UNCHANGED <<cvars, dvars, tvars, svars, rvars, mvars, hvars, xvars, wvars, kvars>>
    /\ pPc = "deploy"
    /\ callLog' = Append(callLog, "triggerDeploy")
    /\ stageLog' = Append(stageLog, Stage("deploy", outcome = "true"))
    /\ CASE outcome = "true" ->
              /\ deployed' = TRUE
              /\ UNCHANGED errors
         [] outcome = "false" ->
              /\ deployed' = FALSE
              /\ errors' = Append(errors, "Deploy trigger returned false")
         [] OTHER ->
              /\ errors' = Append(errors, "Deploy failed: Deploy error")
              /\ UNCHANGED deployed
    /\ result' = contentResult(localSaved, memorySaved, deployed',
                                metricsUpdated, errors')
    /\ pPc' = "done"
    /\ UNCHANGED <<pKind, response, content, decision, localSaved, memorySaved,
                   metricsUpdated>>


\* processActivityOutput, from the call to the end of step 1 (parse decision)
StartActivity ==
    /\ UNCHANGED <<cvars, dvars, tvars, svars, rvars, mvars, hvars, xvars, wvars, kvars>>
    /\ Settled
    /\ pKind' = "activity"
    /\ content' = <<>>
    /\ localSaved' = FALSE
    /\ memorySaved' = FALSE
    /\ deployed' = FALSE
    /\ metricsUpdated' = FALSE
    /\ errors' = <<>>
    /\ callLog' = <<>>
    /\ \E r \in ActivityResponses :
          /\ response' = r
          /\ LET p == parseActivityDecision(r)
             IN IF p.ok
                THEN /\ decision' = <<p.value>>
                     /\ stageLog' = <<Stage("parse", TRUE)>>
                     /\ pPc' = "learning"
                     /\ result' = createFailedResult(<<>>)
                ELSE /\ decision' = <<>>
                     /\ stageLog' = <<Stage("parse", FALSE)>>
                     /\ result' = createFailedResult(<<p.error>>)
                     /\ pPc' = "done"

\* a step-2 guard with the cutoff of step 3
NeedsLearning_forty(d) ==
    d.confidence_in_strategy.value < 40 /\ Truthy(d.strategy_notes)

\* the guard of step 2
NeedsLearning(d) ==
    d.confidence_in_strategy.value < 50 /\ Truthy(d.strategy_notes)

\* step 2: memoryStore.storeStrategicLearning when confidence is low
StoreLearning(outcome) ==
    /\ UNCHANGED <<cvars, dvars, tvars, svars, rvars, mvars, hvars, xvars, wvars, kvars>>
    /\ pPc = "learning"
    /\ IF NeedsLearning(decision[1])
       THEN /\ callLog' = Append(callLog, "storeStrategicLearning")
            /\ stageLog' = Append(stageLog, Stage("learning", outcome = "ok"))
            /\ CASE outcome = "ok" ->
                      /\ memorySaved' = TRUE
                      /\ UNCHANGED errors
                 [] outcome = "unsuccessful" ->
                      /\ memorySaved' = FALSE
                      /\ UNCHANGED errors
                 [] OTHER ->
                      /\ errors' = Append(errors,
                            "Strategic learning store failed: Memory unavailable")
                      /\ UNCHANGED memorySaved
       ELSE /\ outcome = "ok"
            /\ UNCHANGED <<callLog, stageLog, memorySaved, errors>>
    /\ pPc' = "strategy"
    /\ UNCHANGED <<pKind, response, content, decision, localSaved, deployed,
                   metricsUpdated, result>>

\* a step-3 guard with the cutoff of step 2
NeedsStrategyUpdate_half(d) ==
    /\ d.strategy_notes.type = "string"
    /\ IncludesPivot(d.strategy_notes.text)
    /\ d.confidence_in_strategy.value < 50

\* the guard of step 3, for strategy_notes that is absent or a string
NeedsStrategyUpdate(d) ==
    /\ d.strategy_notes.type = "string"
    /\ IncludesPivot(d.strategy_notes.text)
    /\ d.confidence_in_strategy.value < 40

\* step 3: metricsTracker.setStrategy on a low-confidence pivot, then the
\* return; strategy_notes?.toLowerCase() on a number is a TypeError raised
\* outside every try block
UpdateStrategy(outcome) ==
    /\ UNCHANGED <<cvars, dvars, tvars, svars, rvars, mvars, hvars, xvars, wvars, kvars>>
    /\ pPc = "strategy"
    /\ IF decision[1].strategy_notes.type = "number"
       THEN /\ outcome = "ok"
            /\ pPc' = "thrown"
            /\ UNCHANGED <<callLog, stageLog, metricsUpdated, errors, result>>
       ELSE /\ IF NeedsStrategyUpdate(decision[1])
               THEN /\ callLog' = Append(callLog, "setStrategy")
                    /\ stageLog' = Append(stageLog, Stage("strategy", outcome = "ok"))
                    /\ IF outcome = "ok"
                       THEN /\ metricsUpdated' = TRUE
                            /\ UNCHANGED errors
                       ELSE /\ errors' = Append(errors,
                                  "Strategy update failed: Metrics update error")
                            /\ UNCHANGED metricsUpdated
               ELSE /\ outcome = "ok"
                    /\ UNCHANGED <<callLog, stageLog, metricsUpdated, errors>>
            /\ result' = [success |-> TRUE, localSaved |-> FALSE,
                          memorySaved |-> memorySaved, deployed |-> FALSE,
                          metricsUpdated |-> metricsUpdated', errors |-> errors',
                          decision |-> decision]
            /\ pPc' = "done"
    /\ UNCHANGED <<pKind, response, content, decision, localSaved, memorySaved,
                   deployed>>

NextProcessor ==
    \/ StartContent
    \/ \E runway \in {"ok", "throw"}, metrics \in {"ok", "throw"} :
          GatherStatus(runway, metrics)
    \/ \E outcome \in {"ok", "throw"} : LocalSave(outcome)
    \/ \E outcome \in {"ok", "unsuccessful", "throw"} : MemoryStore(outcome)
    \/ \E outcome \in {"ok", "throw"} : UpdateLanding(outcome)
    \/ \E outcome \in {"true", "false", "throw"} : Deploy(outcome)
    \/ StartActivity
    \/ \E outcome \in {"ok", "unsuccessful", "throw"} : StoreLearning(outcome)
    \/ \E outcome \in {"ok", "throw"} : UpdateStrategy(outcome)


\* =========================================================================
\* Completion client
\* =========================================================================
\* one attempt too many
MAX_RETRIES_four == 3 + 1

MAX_RETRIES == 3
BASE_DELAY_MS == 1000

\* error messages, as sequences of words
Messages == {<<"connection", "reset">>, <<"rate", "limit", "exceeded">>,
             <<"Rate", "Limit">>}

\* values a transport call can throw: Error instances (with a name and, when
\* status # 0, a status property) and values that are not Error instances
\* (a string, or when status # 0 a plain object with message and status)
Thrown ==
    [isError : {TRUE}, name : {"Error", "RateLimitError"}, message : Messages,
     status : {0, 429}]
    \cup [isError : {FALSE}, name : {""}, message : Messages, status : {0, 429}]

\* what anthropic.messages.create does on one invocation
NoError == [isError |-> FALSE, name |-> "", message |-> <<>>, status |-> 0]
TransportOutcomes ==
    {[kind |-> k, error |-> NoError] : k \in {"text", "notext"}}
    \cup {[kind |-> "throw", error |-> e] : e \in Thrown}

\* message.toLowerCase().includes("rate limit")
IncludesRateLimit(msg) ==
    \E i \in 1..(Len(msg) - 1) :
        ToLowerCase(msg[i]) = "rate" /\ ToLowerCase(msg[i + 1]) = "limit"

isRateLimitError(e) ==
    /\ e.isError
    /\ \/ e.name = "RateLimitError"
       \/ IncludesRateLimit(e.message)
       \/ e.status = 429

\* String(error) of a thrown value that is not an Error instance: a value
\* without a status is a string and converts to itself; a value with a status
\* is a plain object and converts to "[object Object]"
StringOf(e) ==
    IF e.status = 0 THEN e.message ELSE <<"[object", "Object]">>

\* error instanceof Error ? error : new Error(String(error))
AsError(e) ==
    IF e.isError THEN e
    ELSE [isError |-> TRUE, name |-> "Error", message |-> StringOf(e), status |-> 0]

\* a response without a text block read as the string "undefined"
extractContent_undefined(o) == IF o.kind = "text" THEN "text" ELSE "undefined"

\* textContent?.type === "text" ? textContent.text : ""
extractContent(o) == IF o.kind = "text" THEN "text" ELSE ""

\* a backoff that starts doubling one attempt early
delayMs_early(a) == BASE_DELAY_MS * 2 ^ a

\* BASE_DELAY_MS * 2 ** (attempt - 1)
delayMs(a) == BASE_DELAY_MS * 2 ^ (a - 1)

InitClient ==
    /\ cPc = "idle"
    /\ attempt = 1
    /\ lastError = <<>>
    /\ cOutcomes = <<>>
    /\ cSleeps = <<>>
    /\ cResult = <<>>
    /\ cRaised = <<>>

\* generateContent is called
generateContent ==
    /\ UNCHANGED <<pvars, dvars, tvars, svars, rvars, mvars, hvars, xvars, wvars, kvars>>
    /\ cPc \in {"idle", "returned", "raised"}
    /\ cPc' = "call"
    /\ attempt' = 1
    /\ lastError' = <<>>
    /\ cOutcomes' = <<>>
    /\ cSleeps' = <<>>
    /\ cResult' = <<>>
    /\ cRaised' = <<>>

\* one pass of the loop body: the transport call and its handling
MessagesCreate(o) ==
    /\ UNCHANGED <<pvars, dvars, tvars, svars, rvars, mvars, hvars, xvars, wvars, kvars>>
    /\ cPc = "call"
    /\ cOutcomes' = Append(cOutcomes, o)
    /\ IF o.kind # "throw"
       THEN /\ cResult' = <<[content |-> extractContent(o)]>>
            /\ cPc' = "returned"
            /\ UNCHANGED <<lastError, cRaised>>
       ELSE /\ lastError' = <<AsError(o.error)>>
            /\ IF attempt < MAX_RETRIES
               THEN /\ cPc' = "sleep"
                    /\ UNCHANGED cRaised
               ELSE /\ cRaised' = <<[cause |-> AsError(o.error),
                                     isRateLimitError |->
                                         isRateLimitError(AsError(o.error))]>>
                    /\ cPc' = "raised"
            /\ UNCHANGED cResult
    /\ UNCHANGED <<attempt, cSleeps>>

\* await sleep(BASE_DELAY_MS * 2 ** (attempt - 1)), then the next attempt
Sleep ==
    /\ UNCHANGED <<pvars, dvars, tvars, svars, rvars, mvars, hvars, xvars, wvars, kvars>>
    /\ cPc = "sleep"
    /\ cSleeps' = Append(cSleeps, delayMs(attempt))
    /\ attempt' = attempt + 1
    /\ cPc' = "call"
    /\ UNCHANGED <<lastError, cOutcomes, cResult, cRaised>>

NextClient ==
    \/ generateContent
    \/ \E o \in TransportOutcomes : MessagesCreate(o)
    \/ Sleep

\* =========================================================================
\* Deploy trigger
\* =========================================================================
\* a loop that gives up one attempt early
maxRetries_two == 3 - 1

maxRetries == 3

\* what fetch does on one call: reject, or resolve with a response whose
\* status is 2xx (ok) or not, and whose body is JSON with a job, JSON without
\* a job, the JSON value null, or not JSON at all
FetchOutcomes ==
    {[rejected |-> TRUE, ok |-> FALSE, body |-> "none"],
     [rejected |-> FALSE, ok |-> FALSE, body |-> "notjson"]}
    \cup {[rejected |-> FALSE, ok |-> TRUE, body |-> b] :
            b \in {"job", "nojob", "null", "notjson"}}

\* response.json() resolves and data.job?.id evaluates
BodyReadable(o) == o.body \in {"job", "nojob"}

getBackoffDelay(a) == 1000 * 2 ^ a

InitDeploy ==
    /\ dPc = "idle"
    /\ dAttempt = 0
    /\ dOutcomes = <<>>
    /\ dSleeps = <<>>
    /\ dResult = FALSE

\* triggerDeploy is called
triggerDeploy ==
    /\ UNCHANGED <<pvars, cvars, tvars, svars, rvars, mvars, hvars, xvars, wvars, kvars>>
    /\ dPc \in {"idle", "returned"}
    /\ dPc' = "fetch"
    /\ dAttempt' = 0
    /\ dOutcomes' = <<>>
    /\ dSleeps' = <<>>
    /\ dResult' = FALSE

\* one pass of the loop body up to the backoff: the POST and its handling
Fetch(o) ==
    /\ UNCHANGED <<pvars, cvars, tvars, svars, rvars, mvars, hvars, xvars, wvars, kvars>>
    /\ dPc = "fetch"
    /\ dOutcomes' = Append(dOutcomes, o)
    /\ IF ~o.rejected /\ o.ok /\ BodyReadable(o)
       THEN /\ dResult' = TRUE
            /\ dPc' = "returned"
       ELSE IF dAttempt < maxRetries - 1
            THEN /\ dPc' = "delay"
                 /\ UNCHANGED dResult
            ELSE /\ dResult' = FALSE
                 /\ dPc' = "returned"
    /\ UNCHANGED <<dAttempt, dSleeps>>

\* await delay(getBackoffDelay(attempt)), then the next attempt
Delay ==
    /\ UNCHANGED <<pvars, cvars, tvars, svars, rvars, mvars, hvars, xvars, wvars, kvars>>
    /\ dPc = "delay"
    /\ dSleeps' = Append(dSleeps, getBackoffDelay(dAttempt))
    /\ dAttempt' = dAttempt + 1
    /\ dPc' = "fetch"
    /\ UNCHANGED <<dOutcomes, dResult>>

NextDeploy ==
    \/ triggerDeploy
    \/ \E o \in FetchOutcomes : Fetch(o)
    \/ Delay

\* =========================================================================
\* Retry loops of the tasks
\* =========================================================================
\* maxRetries of callClaudeAPI (default parameter) and of the hourly task's
\* triggerDeploy
hourlyMaxRetries == 3

\* a decideActivity loop with one more pass
decideMaxRetries_four == 3 + 1

\* maxRetries of decideActivity
decideMaxRetries == 3

\* const delays = [1000, 2000, 4000], indexed from 0 in the code
delays == <<1000, 2000, 4000>>

\* 1000 * 2 ** (attempt - 1)
hourlyDelay(a) == 1000 * 2 ^ (a - 1)

\* what client.messages.create does for callClaudeAPI: a response with a text
\* block, a response without one, or a thrown error
ClaudeOutcomes == {"text", "notext", "throw"}

\* what fetch does for the hourly task's triggerDeploy
HourlyFetchOutcomes == {"rejected", "non2xx", "2xx"}

\* what client.messages.create does for decideActivity: a text block that
\* parseResponse accepts, one it rejects, no text block, or a thrown error
DecideOutcomes == {"valid", "invalid", "notext", "throw"}

InitTaskLoops ==
    /\ tFn = "none"
    /\ tPc = "idle"
    /\ tAttempt = 0
    /\ tOutcomes = <<>>
    /\ tSleeps = <<>>
    /\ tResult = "none"

TaskLoopSettled == tPc \in {"idle", "returned", "raised"}

\* a task-level function is entered: its loop counter starts at first
EnterLoop(fn, first) ==
    /\ TaskLoopSettled
    /\ tFn' = fn
    /\ tPc' = "call"
    /\ tAttempt' = first
    /\ tOutcomes' = <<>>
    /\ tSleeps' = <<>>
    /\ tResult' = "none"

\* callClaudeAPI is called by runHourlyUpdate
callClaudeAPI ==
    /\ UNCHANGED <<pvars, cvars, dvars, svars, rvars, mvars, hvars, xvars, wvars, kvars>>
    /\ EnterLoop("callClaudeAPI", 1)

\* one pass of callClaudeAPI's loop body: a response without a text block
\* throws inside the try and is handled like a failed call
ClaudeCreate(o) ==
    /\ UNCHANGED <<pvars, cvars, dvars, svars, rvars, mvars, hvars, xvars, wvars, kvars>>
    /\ tFn = "callClaudeAPI" /\ tPc = "call"
    /\ tOutcomes' = Append(tOutcomes, o)
    /\ IF o = "text"
       THEN /\ tResult' = "text"
            /\ tPc' = "returned"
       ELSE IF tAttempt < hourlyMaxRetries
            THEN /\ tPc' = "sleep"
                 /\ UNCHANGED tResult
            ELSE /\ tResult' = "Claude API failed after 3 attempts"
                 /\ tPc' = "raised"
    /\ UNCHANGED <<tFn, tAttempt, tSleeps>>

\* the backoff inside callClaudeAPI's catch, then the next attempt
ClaudeSleep ==
    /\ UNCHANGED <<pvars, cvars, dvars, svars, rvars, mvars, hvars, xvars, wvars, kvars>>
    /\ tFn = "callClaudeAPI" /\ tPc = "sleep"
    /\ tSleeps' = Append(tSleeps, hourlyDelay(tAttempt))
    /\ tAttempt' = tAttempt + 1
    /\ tPc' = "call"
    /\ UNCHANGED <<tFn, tOutcomes, tResult>>

\* the hourly task's own triggerDeploy is called by runHourlyUpdate
hourlyTriggerDeploy ==
    /\ UNCHANGED <<pvars, cvars, dvars, svars, rvars, mvars, hvars, xvars, wvars, kvars>>
    /\ EnterLoop("triggerDeploy", 1)

\* one pass of its loop body up to the backoff: response.ok returns true
\* without reading the body
HourlyFetch(o) ==
    /\ UNCHANGED <<pvars, cvars, dvars, svars, rvars, mvars, hvars, xvars, wvars, kvars>>
    /\ tFn = "triggerDeploy" /\ tPc = "call"
    /\ tOutcomes' = Append(tOutcomes, o)
    /\ IF o = "2xx"
       THEN /\ tResult' = "true"
            /\ tPc' = "returned"
       ELSE IF tAttempt < hourlyMaxRetries
            THEN /\ tPc' = "sleep"
                 /\ UNCHANGED tResult
            ELSE /\ tResult' = "false"
                 /\ tPc' = "returned"
    /\ UNCHANGED <<tFn, tAttempt, tSleeps>>

HourlyDelay ==
    /\ UNCHANGED <<pvars, cvars, dvars, svars, rvars, mvars, hvars, xvars, wvars, kvars>>
    /\ tFn = "triggerDeploy" /\ tPc = "sleep"
    /\ tSleeps' = Append(tSleeps, hourlyDelay(tAttempt))
    /\ tAttempt' = tAttempt + 1
    /\ tPc' = "call"
    /\ UNCHANGED <<tFn, tOutcomes, tResult>>

\* decideActivity is called by the activity decision task
decideActivity ==
    /\ UNCHANGED <<pvars, cvars, dvars, svars, rvars, mvars, hvars, xvars, wvars, kvars>>
    /\ EnterLoop("decideActivity", 0)

\* one pass of decideActivity's loop body: parseResponse runs inside the try,
\* so a response it rejects is handled like a failed call; after the last
\* pass the function throws lastError
DecideCreate(o) ==
    /\ UNCHANGED <<pvars, cvars, dvars, svars, rvars, mvars, hvars, xvars, wvars, kvars>>
    /\ tFn = "decideActivity" /\ tPc = "call"
    /\ tOutcomes' = Append(tOutcomes, o)
    /\ IF o = "valid"
       THEN /\ tResult' = "decision"
            /\ tPc' = "returned"
       ELSE IF tAttempt < decideMaxRetries - 1
            THEN /\ tPc' = "sleep"
                 /\ UNCHANGED tResult
            ELSE /\ tResult' = "lastError"
                 /\ tPc' = "raised"
    /\ UNCHANGED <<tFn, tAttempt, tSleeps>>

\* setTimeout(resolve, delays[attempt]), then the next attempt
DecideSleep ==
    /\ UNCHANGED <<pvars, cvars, dvars, svars, rvars, mvars, hvars, xvars, wvars, kvars>>
    /\ tFn = "decideActivity" /\ tPc = "sleep"
    /\ tSleeps' = Append(tSleeps, delays[tAttempt + 1])
    /\ tAttempt' = tAttempt + 1
    /\ tPc' = "call"
    /\ UNCHANGED <<tFn, tOutcomes, tResult>>

NextTaskLoops ==
    \/ callClaudeAPI
    \/ \E o \in ClaudeOutcomes : ClaudeCreate(o)
    \/ ClaudeSleep
    \/ hourlyTriggerDeploy
    \/ \E o \in HourlyFetchOutcomes : HourlyFetch(o)
    \/ HourlyDelay
    \/ decideActivity
    \/ \E o \in DecideOutcomes : DecideCreate(o)
    \/ DecideSleep

\* one call of any of the five retry loops, the other components untouched
NextRetryLoops ==
    \/ (dPc = "idle" /\ tPc = "idle" /\ NextClient)
    \/ (cPc = "idle" /\ tPc = "idle" /\ NextDeploy)
    \/ (cPc = "idle" /\ dPc = "idle" /\ NextTaskLoops)

\* =========================================================================
\* Scheduler
\* =========================================================================
\* a cron expression is a sequence of fields; a field is "*" (Star), "*/n" or a number
Star == [kind |-> "any", n |-> 0]
Step(k) == [kind |-> "step", n |-> k]
Num(k) == [kind |-> "num", n |-> k]

\* the value range of the five fields: minute, hour, day of month, month,
\* day of week
FieldRange(pos) ==
    CASE pos = 1 -> 0..59
      [] pos = 2 -> 0..23
      [] pos = 3 -> 1..31
      [] pos = 4 -> 1..12
      [] pos = 5 -> 0..7

ValidField(f, pos) ==
    \/ f.kind = "any"
    \/ f.kind = "step" /\ f.n >= 1
    \/ f.kind = "num" /\ f.n \in FieldRange(pos)

\* a validation that looks at the number of fields only
validate_fieldCount(schedule) == Len(schedule) = 5

\* cron.validate(schedule)
validate(schedule) ==
    /\ Len(schedule) = 5
    /\ \A pos \in 1..5 : ValidField(schedule[pos], pos)

\* the registerTask calls of startScheduler, in order
ConfiguredTasks ==
    << [name |-> "activityDecision", schedule |-> <<Num(55), Star, Star, Star, Star>>],
       [name |-> "hourlyUpdate",     schedule |-> <<Num(50), Star, Star, Star, Star>>],
       [name |-> "dailyJournal",     schedule |-> <<Num(0), Num(23), Star, Star, Star>>],
       [name |-> "runwayCheck",      schedule |-> <<Num(0), Step(6), Star, Star, Star>>],
       [name |-> "goalReview",       schedule |-> <<Num(15), Num(0), Star, Star, Star>>],
       [name |-> "weeklyReview",     schedule |-> <<Num(0), Num(12), Star, Star, Num(0)>>],
       [name |-> "healthCheck",      schedule |-> <<Step(5), Star, Star, Star, Star>>] >>

\* arguments of a direct registerTask call: a valid expression, a minute and
\* an hour out of range, and an expression with too few fields
RegisterNames == {"custom", "healthCheck"}
RegisterSchedules ==
    { <<Step(5), Star, Star, Star, Star>>,
      <<Num(61), Star, Star, Star, Star>>,
      <<Num(0), Num(24), Star, Star, Star>>,
      <<Star, Star, Star>> }

\* a registerTask that skips the validation
registerTask_unchecked(reg, name, schedule) ==
    Append(reg, [name |-> name, schedule |-> schedule, job |-> 0])

\* the registry after registerTask(name, schedule)
registerTask(reg, name, schedule) ==
    IF ~validate(schedule)
    THEN reg
    ELSE Append(reg, [name |-> name, schedule |-> schedule, job |-> 0])

\* the logger.error events of registerTask(name, schedule)
registerTaskErrors(name, schedule) ==
    IF ~validate(schedule)
    THEN <<[name |-> name, schedule |-> schedule]>>
    ELSE <<>>

RECURSIVE registerAll(_, _)
registerAll(reg, table) ==
    IF table = <<>> THEN reg
    ELSE registerAll(registerTask(reg, Head(table).name, Head(table).schedule),
                     Tail(table))

\* getSchedulerStatus()
getSchedulerStatus ==
    [i \in 1..Len(tasks) |-> [name |-> tasks[i].name, schedule |-> tasks[i].schedule]]

InitScheduler ==
    /\ tasks = <<>>
    /\ jobs = <<>>
    /\ sLast = "none"
    /\ starts = 0
    /\ runs = <<>>
    /\ sErrors = <<>>
    /\ regLog = <<>>

\* registerTask called on its own
RegisterTask(name, schedule) ==
    /\ UNCHANGED <<pvars, cvars, dvars, tvars, rvars, mvars, hvars, xvars, wvars, kvars>>
    /\ Len(regLog) < MaxRegisters
    /\ tasks' = registerTask(tasks, name, schedule)
    /\ sErrors' = sErrors \o registerTaskErrors(name, schedule)
    /\ regLog' = Append(regLog, [name |-> name, schedule |-> schedule,
                                 changed |-> tasks' # tasks,
                                 logged |-> sErrors' # sErrors])
    /\ UNCHANGED <<jobs, sLast, starts, runs>>

\* startScheduler: the seven registerTask calls, then a cron job for every
\* entry of the registry
startScheduler ==
    /\ UNCHANGED <<pvars, cvars, dvars, tvars, rvars, mvars, hvars, xvars, wvars, kvars>>
    /\ starts < MaxStarts
    /\ LET reg == registerAll(tasks, ConfiguredTasks)
       IN /\ tasks' = [i \in 1..Len(reg) |->
                          [reg[i] EXCEPT !.job = Len(jobs) + i]]
          /\ jobs' = jobs \o [i \in 1..Len(reg) |->
                                [name |-> reg[i].name,
                                 schedule |-> reg[i].schedule,
                                 active |-> TRUE]]
    /\ sLast' = "start"
    /\ starts' = starts + 1
    /\ UNCHANGED <<runs, sErrors, regLog>>

\* stopScheduler: stop the job of every entry, then empty the registry
stopScheduler ==
    /\ UNCHANGED <<pvars, cvars, dvars, tvars, rvars, mvars, hvars, xvars, wvars, kvars>>
    /\ sLast # "stop"
    /\ jobs' = [j \in 1..Len(jobs) |->
                  IF \E i \in 1..Len(tasks) : tasks[i].job = j
                  THEN [jobs[j] EXCEPT !.active = FALSE]
                  ELSE jobs[j]]
    /\ tasks' = <<>>
    /\ sLast' = "stop"
    /\ UNCHANGED <<starts, runs, sErrors, regLog>>

InFlight(i) == runs[i].pc \in {"running", "sleep"}

\* a wrapper that logs the failure and throws it on
wrapWithLogging_rethrow(outcome) ==
    IF outcome = "throw" THEN "rejected" ELSE "completed"

\* how the wrapped invocation settles when await handler() returns or throws:
\* both branches log and fall off the end of the async function
wrapWithLogging(outcome) ==
    IF outcome = "throw" THEN "caught" ELSE "completed"

\* a cron job that fires only while no handler is in flight
CanFire_exclusive(j) ==
    jobs[j].active /\ \A i \in 1..Len(runs) : ~InFlight(i)

\* a cron job that skips a firing while its own handler is in flight
CanFire_noOverlap(j) ==
    jobs[j].active /\ \A i \in 1..Len(runs) : InFlight(i) => runs[i].name # jobs[j].name

\* a cron job fires on its schedule until it is stopped
CanFire(j) == jobs[j].active

\* a job's timer fires: the wrapped handler starts
Fire(j) ==
    /\ UNCHANGED <<pvars, cvars, dvars, tvars, rvars, mvars, hvars, xvars, wvars, kvars>>
    /\ j \in 1..Len(jobs)
    /\ CanFire(j)
    /\ Len(runs) < MaxRuns
    /\ runs' = Append(runs,
          [name |-> jobs[j].name,
           pc |-> "running",
           stopped |-> sLast = "stop",
           failedBefore |-> {runs[i].name : i \in {k \in 1..Len(runs) :
                                                     runs[k].pc = "caught"}},
           overtook |-> {k \in 1..Len(runs) : runs[k].pc = "sleep"}])
    /\ UNCHANGED <<tasks, jobs, sLast, starts, sErrors, regLog>>

\* the handler suspends in a backoff sleep of a retry loop
HandlerSleep(i) ==
    /\ UNCHANGED <<pvars, cvars, dvars, tvars, rvars, mvars, hvars, xvars, wvars, kvars>>
    /\ i \in 1..Len(runs)
    /\ runs[i].pc = "running"
    /\ runs' = [runs EXCEPT ![i].pc = "sleep"]
    /\ UNCHANGED <<tasks, jobs, sLast, starts, sErrors, regLog>>

\* the sleep ends and the handler continues (the invocations that started
\* during the sleep no longer count as started during a sleep in progress)
HandlerResume(i) ==
    /\ UNCHANGED <<pvars, cvars, dvars, tvars, rvars, mvars, hvars, xvars, wvars, kvars>>
    /\ i \in 1..Len(runs)
    /\ runs[i].pc = "sleep"
    /\ runs' = [k \in 1..Len(runs) |->
                  IF k = i THEN [runs[k] EXCEPT !.pc = "running"]
                  ELSE [runs[k] EXCEPT !.overtook = @ \ {i}]]
    /\ UNCHANGED <<tasks, jobs, sLast, starts, sErrors, regLog>>

\* await handler() resolves: the wrapper logs the completion
HandlerReturn(i) ==
    /\ UNCHANGED <<pvars, cvars, dvars, tvars, rvars, mvars, hvars, xvars, wvars, kvars>>
    /\ i \in 1..Len(runs)
    /\ runs[i].pc = "running"
    /\ runs' = [runs EXCEPT ![i].pc = wrapWithLogging("return")]
    /\ UNCHANGED <<tasks, jobs, sLast, starts, sErrors, regLog>>

\* await handler() rejects: the wrapper's catch logs the failure and the
\* wrapped invocation resolves
HandlerThrow(i) ==
    /\ UNCHANGED <<pvars, cvars, dvars, tvars, rvars, mvars, hvars, xvars, wvars, kvars>>
    /\ i \in 1..Len(runs)
    /\ runs[i].pc = "running"
    /\ runs' = [runs EXCEPT ![i].pc = wrapWithLogging("throw")]
    /\ UNCHANGED <<tasks, jobs, sLast, starts, sErrors, regLog>>

\* the scheduler's interface and its timers
NextScheduler ==
    \/ startScheduler
    \/ stopScheduler
    \/ \E j \in 1..Len(jobs) : Fire(j)

\* a started scheduler and the handlers it runs
NextHandlers ==
    \/ startScheduler
    \/ \E j \in 1..Len(jobs) : Fire(j)
    \/ \E i \in 1..Len(runs) : HandlerSleep(i)
    \/ \E i \in 1..Len(runs) : HandlerResume(i)
    \/ \E i \in 1..Len(runs) : HandlerReturn(i)
    \/ \E i \in 1..Len(runs) : HandlerThrow(i)

NextRegister ==
    \/ \E name \in RegisterNames, schedule \in RegisterSchedules :
          RegisterTask(name, schedule)
    \/ startScheduler
    \/ stopScheduler

\* =========================================================================
\* Runway tracker and urgency functions
\* =========================================================================
\* INITIAL_RUNWAY_DAYS: a positive integer, 11 unless the environment sets it
ConfiguredRunwayDays == {5, 11}

\* JavaScript values handed to updateRunwayDays and read back from the file
Finite(k) == [kind |-> "number", v |-> k]
Infinity == [kind |-> "infinity", v |-> 0]
Null == [kind |-> "null", v |-> 0]

RunwayInputs == {Finite(k) : k \in 0..MaxDays} \cup {Infinity}

\* JSON.parse(JSON.stringify(x)) of a number: a number that is not finite is
\* written as null
JsonNumber(x) == IF x.kind = "number" THEN x ELSE Null

\* the runway tracker's getUrgencyLevel
getUrgencyLevel(runwayDays) ==
    IF runwayDays < 3 THEN "critical"
    ELSE IF runwayDays < 7 THEN "urgent"
    ELSE IF runwayDays <= 14 THEN "focused"
    ELSE "comfortable"

\* the context builder's calculateUrgencyLevel
calculateUrgencyLevel(runwayDays) ==
    IF runwayDays < 3 THEN "critical"
    ELSE IF runwayDays < 7 THEN "urgent"
    ELSE IF runwayDays < 14 THEN "focused"
    ELSE "comfortable"

\* the activity decision task's getUrgencyLevel
activityGetUrgencyLevel(runwayDays) ==
    IF runwayDays < 3 THEN "critical"
    ELSE IF runwayDays < 7 THEN "urgent"
    ELSE IF runwayDays < 14 THEN "focused"
    ELSE "comfortable"

NoLevels == [tracker |-> "none", builder |-> "none", activity |-> "none"]

\* getConfig: the environment (env) is parsed on the first call only
getConfig(env) == IF rConfig = <<>> THEN <<env>> ELSE rConfig

\* getInitialRunwayDays
getInitialRunwayDays(env) == Finite(getConfig(env)[1])

InitRunway ==
    /\ rConfig = <<>>
    /\ rFile = <<>>
    /\ rGot = <<>>
    /\ rLast = <<>>
    /\ uDays = 0
    /\ uLevel = NoLevels

\* loadRunwayState: null without a file, else the parsed state
loadRunwayState == rFile

\* a getRunwayDays that never reads the file
getRunwayDaysValue_initialOnly(env) == getInitialRunwayDays(env)

\* the value getRunwayDays returns
getRunwayDaysValue(env) ==
    IF loadRunwayState # <<>>
    THEN loadRunwayState[1].runwayDays
    ELSE getInitialRunwayDays(env)

getRunwayDays(env) ==
    /\ UNCHANGED <<pvars, cvars, dvars, tvars, svars, mvars, hvars, xvars, wvars, kvars>>
    /\ rGot' = <<getRunwayDaysValue(env)>>
    /\ rConfig' = IF loadRunwayState # <<>> THEN rConfig ELSE getConfig(env)
    /\ UNCHANGED <<rFile, rLast, uDays, uLevel>>

\* updateRunwayDays(n): saveRunwayState writes the state as JSON
updateRunwayDays(n) ==
    /\ UNCHANGED <<pvars, cvars, dvars, tvars, svars, mvars, hvars, xvars, wvars, kvars>>
    /\ rFile' = <<[runwayDays |-> JsonNumber(n)]>>
    /\ rLast' = <<n>>
    /\ rGot' = <<>>
    /\ UNCHANGED <<rConfig, uDays, uLevel>>

\* one of the three urgency functions is applied to d
TrackerUrgency(d) ==
    /\ UNCHANGED <<pvars, cvars, dvars, tvars, svars, mvars, hvars, xvars, wvars, kvars>>
    /\ uDays' = d
    /\ uLevel' = [NoLevels EXCEPT !.tracker = getUrgencyLevel(d)]
    /\ UNCHANGED <<rConfig, rFile, rGot, rLast>>

BuilderUrgency(d) ==
    /\ UNCHANGED <<pvars, cvars, dvars, tvars, svars, mvars, hvars, xvars, wvars, kvars>>
    /\ uDays' = d
    /\ uLevel' = [NoLevels EXCEPT !.builder = calculateUrgencyLevel(d)]
    /\ UNCHANGED <<rConfig, rFile, rGot, rLast>>

ActivityUrgency(d) ==
    /\ UNCHANGED <<pvars, cvars, dvars, tvars, svars, mvars, hvars, xvars, wvars, kvars>>
    /\ uDays' = d
    /\ uLevel' = [NoLevels EXCEPT !.activity = activityGetUrgencyLevel(d)]
    /\ UNCHANGED <<rConfig, rFile, rGot, rLast>>

NextRunway ==
    \/ \E env \in ConfiguredRunwayDays : getRunwayDays(env)
    \/ \E n \in RunwayInputs : updateRunwayDays(n)
    \/ \E d \in 0..MaxDays : TrackerUrgency(d)
    \/ \E d \in 0..MaxDays : BuilderUrgency(d)
    \/ \E d \in 0..MaxDays : ActivityUrgency(d)

\* =========================================================================
\* Metrics store
\* =========================================================================
\* A metrics object is [thingsShipped, revenueTotal, currentStrategy, km]:
\* km names the keyMetrics object it points to, whose content is mHeap[km].
\* A metrics value is [thingsShipped, revenueTotal, currentStrategy,
\* keyMetrics]: what JSON.stringify writes and JSON.parse reads back.
MetricKeys == {"k1", "k2"}
EmptyKm == [k \in MetricKeys |-> "absent"]
KmObjects == 0..2

\* the value of object o in heap h
ViewIn(o, h) ==
    [thingsShipped |-> o.thingsShipped, revenueTotal |-> o.revenueTotal,
     currentStrategy |-> o.currentStrategy, keyMetrics |-> h[o.km]]

\* { ...DEFAULT_METRICS }: new scalars, the keyMetrics object of DEFAULT_METRICS
DEFAULT_METRICS ==
    [thingsShipped |-> 0, revenueTotal |-> 0, currentStrategy |-> "", km |-> 0]

\* Partial<Metrics>: <<>> is a field that is not present
NoFields ==
    [thingsShipped |-> <<>>, revenueTotal |-> <<>>, currentStrategy |-> <<>>,
     keyMetrics |-> <<>>]
Overlay(k, v) == [j \in MetricKeys |-> IF j = k THEN v ELSE "skip"]
PartialInputs ==
    { NoFields,
      [NoFields EXCEPT !.thingsShipped = <<7>>],
      [NoFields EXCEPT !.currentStrategy = <<"pivot">>],
      [NoFields EXCEPT !.revenueTotal = <<5>>, !.keyMetrics = <<Overlay("k1", "a")>>],
      [NoFields EXCEPT !.keyMetrics = <<Overlay("k2", "b")>>],
      [NoFields EXCEPT !.thingsShipped = <<7>>, !.keyMetrics = <<Overlay("k1", "b")>>] }

Handlers == {"h1", "h2"}
NoCall == [partial |-> NoFields, before |-> <<>>, returned |-> <<>>]

InitMetrics ==
    /\ mCache = <<>>
    /\ mFile = <<>>
    /\ mRemote = <<>>
    /\ mHeap = [i \in KmObjects |-> EmptyKm]
    /\ mHeld = <<>>
    /\ mCall = NoCall
    /\ mUpdates = 0
    /\ mIncs = [h \in Handlers |-> 0]
    /\ mIncLog = <<>>

\* a keyMetrics object nobody refers to: the cache's old one is dropped by
\* whoever asks for a new one, the caller's is not
Fresh == IF mHeld # <<>> /\ mHeld[1].km = 1 THEN 2 ELSE 1

\* objects no reference reaches are forgotten
Collect(h, cache, held) ==
    [i \in KmObjects |->
        IF \/ i = 0
           \/ cache # <<>> /\ cache[1].km = i
           \/ held # <<>> /\ held[1].km = i
        THEN h[i] ELSE EmptyKm]

\* loadFromFile: the parsed file, or a spread of DEFAULT_METRICS
loadFromFile ==
    IF mFile # <<>>
    THEN [obj |-> [thingsShipped |-> mFile[1].thingsShipped,
                   revenueTotal |-> mFile[1].revenueTotal,
                   currentStrategy |-> mFile[1].currentStrategy,
                   km |-> Fresh],
          heap |-> [mHeap EXCEPT ![Fresh] = mFile[1].keyMetrics]]
    ELSE [obj |-> DEFAULT_METRICS, heap |-> mHeap]

\* the first two lines of getMetrics: cachedMetrics after the load
Cached ==
    IF mCache # <<>> THEN [obj |-> mCache[1], heap |-> mHeap] ELSE loadFromFile

\* the value a getMetrics() made now returns
getMetricsValue == ViewIn(Cached.obj, Cached.heap)

\* getMetrics: a spread of the cache, so the same keyMetrics object
getMetrics ==
    /\ UNCHANGED <<pvars, cvars, dvars, tvars, svars, rvars, hvars, xvars, wvars, kvars>>
    /\ mCache' = <<Cached.obj>>
    /\ mHeld' = <<Cached.obj>>
    /\ mHeap' = Collect(Cached.heap, mCache', mHeld')
    /\ mCall' = NoCall
    /\ UNCHANGED <<mFile, mRemote, mUpdates, mIncs, mIncLog>>

\* keyMetrics that forgets the previous keys
mergeKeyMetrics_replace(current, partial) ==
    IF partial = <<>> THEN EmptyKm
    ELSE [k \in MetricKeys |->
            IF partial[1][k] = "skip" THEN "absent" ELSE partial[1][k]]

\* { ...current.keyMetrics, ...(partial.keyMetrics || {}) }
mergeKeyMetrics(current, partial) ==
    IF partial = <<>> THEN current
    ELSE [k \in MetricKeys |->
            IF partial[1][k] = "skip" THEN current[k] ELSE partial[1][k]]

\* { ...current, ...partial } on one scalar field
mergeField(current, partial) == IF partial = <<>> THEN current ELSE partial[1]

\* the body of updateMetrics(partial): disk says whether writeFileSync
\* succeeds, backup whether the remote store takes the copy, holds whether
\* the caller keeps the object that is returned
UpdateStep(partial, disk, backup, holds) ==
    LET cur == Cached
        current == ViewIn(cur.obj, cur.heap)
        updated ==
            [thingsShipped |-> mergeField(current.thingsShipped, partial.thingsShipped),
             revenueTotal |-> mergeField(current.revenueTotal, partial.revenueTotal),
             currentStrategy |-> mergeField(current.currentStrategy, partial.currentStrategy),
             km |-> Fresh]
        heap == [cur.heap EXCEPT
                    ![Fresh] = mergeKeyMetrics(current.keyMetrics, partial.keyMetrics)]
        value == ViewIn(updated, heap)
    IN  /\ disk = "throw" => backup = "none"
        /\ mCache' = <<updated>>
        /\ mFile' = IF disk = "ok" THEN <<value>> ELSE mFile
        /\ mRemote' = IF backup = "ok" THEN <<value>> ELSE mRemote
        /\ mHeld' = IF disk = "ok" /\ holds THEN <<updated>> ELSE mHeld
        /\ mHeap' = Collect(heap, mCache', mHeld')
        /\ mCall' = [partial |-> partial, before |-> <<current>>,
                     returned |-> IF disk = "ok" THEN <<value>> ELSE <<>>]

updateMetrics(partial, disk, backup) ==
    /\ mUpdates < MaxUpdates
    /\ UNCHANGED <<pvars, cvars, dvars, tvars, svars, rvars, hvars, xvars, wvars, kvars>>
    /\ UpdateStep(partial, disk, backup, TRUE)
    /\ mUpdates' = mUpdates + 1
    /\ UNCHANGED <<mIncs, mIncLog>>

\* an increment that counts twice
nextShipped_twice(current) == current + 1 + 1

\* getMetrics().thingsShipped + 1
nextShipped(current) == current + 1

\* incrementShipped, called by handler h: it has no await, so the read, the
\* write and the return are one step
incrementShipped(h, disk, backup) ==
    /\ mIncs[h] < MaxIncrements
    /\ UNCHANGED <<pvars, cvars, dvars, tvars, svars, rvars, hvars, xvars, wvars, kvars>>
    /\ UpdateStep([NoFields EXCEPT
                      !.thingsShipped = <<nextShipped(getMetricsValue.thingsShipped)>>],
                  disk, backup, FALSE)
    /\ mIncs' = [mIncs EXCEPT ![h] = @ + 1]
    /\ mIncLog' = Append(mIncLog,
                         [by |-> h, read |-> getMetricsValue.thingsShipped,
                          returned |-> IF disk = "ok" THEN mCache'[1].thingsShipped
                                       ELSE -1])
    /\ UNCHANGED mUpdates

\* resetMetricsCache
resetMetricsCache ==
    /\ mCache # <<>>
    /\ UNCHANGED <<pvars, cvars, dvars, tvars, svars, rvars, hvars, xvars, wvars, kvars>>
    /\ mCache' = <<>>
    /\ mHeap' = Collect(mHeap, mCache', mHeld)
    /\ mCall' = NoCall
    /\ UNCHANGED <<mFile, mRemote, mHeld, mUpdates, mIncs, mIncLog>>

\* the caller writes into the object it was given
MutateHeldKeyMetrics ==
    /\ mHeld # <<>>
    /\ UNCHANGED <<pvars, cvars, dvars, tvars, svars, rvars, hvars, xvars, wvars, kvars>>
    /\ mHeap' = [mHeap EXCEPT ![mHeld[1].km]["k1"] = "mutated"]
    /\ mCall' = NoCall
    /\ UNCHANGED <<mCache, mFile, mRemote, mHeld, mUpdates, mIncs, mIncLog>>

MutateHeldScalar ==
    /\ mHeld # <<>>
    /\ UNCHANGED <<pvars, cvars, dvars, tvars, svars, rvars, hvars, xvars, wvars, kvars>>
    /\ mHeld' = <<[mHeld[1] EXCEPT !.currentStrategy = "mutated"]>>
    /\ mCall' = NoCall
    /\ UNCHANGED <<mCache, mFile, mRemote, mHeap, mUpdates, mIncs, mIncLog>>

NextMetrics ==
    \/ getMetrics
    \/ \E p \in PartialInputs, disk \in {"ok", "throw"}, backup \in {"ok", "none"} :
          updateMetrics(p, disk, backup)
    \/ resetMetricsCache
    \/ MutateHeldKeyMetrics
    \/ MutateHeldScalar

\* handlers that only ship: the disk takes every write
NextShipped ==
    \/ getMetrics
    \/ mIncLog = <<>> /\ \E p \in PartialInputs : updateMetrics(p, "ok", "none")
    \/ \E h \in Handlers : incrementShipped(h, "ok", "none")
    \/ resetMetricsCache

\* =========================================================================
\* Hourly update task
\* =========================================================================
\* config.TOTAL_DAYS (its default)
TOTAL_DAYS == 100

\* whole hours between START_DATE and the clock, before and after the start
ElapsedHours == {-25, -1, 0, 23, 24, 2375, 2376, 2400}

\* getCurrentDayNumber: floor(diffMs / one day) + 1
getCurrentDayNumber(hours) == (hours \div 24) + 1

\* getDaysRemaining: max(0, totalDays - currentDay + 1), with its own reading
\* of the clock
getDaysRemaining(hours) ==
    LET left == TOTAL_DAYS - getCurrentDayNumber(hours) + 1
    IN  IF left > 0 THEN left ELSE 0

InitHourly ==
    /\ hPc = "idle"
    /\ hDay = 0
    /\ hRemaining = 0
    /\ hLog = <<>>
    /\ hLanding = <<>>
    /\ hResult = "none"

\* runHourlyUpdate is called hours after the start date; getDaysRemaining
\* reads the clock again, later hours after getCurrentDayNumber
runHourlyUpdate(hours, later) ==
    /\ UNCHANGED <<pvars, cvars, dvars, tvars, svars, rvars, mvars, xvars, wvars, kvars>>
    /\ hPc \in {"idle", "done"}
    /\ hDay' = getCurrentDayNumber(hours)
    /\ hRemaining' = getDaysRemaining(hours + later)
    /\ hLog' = <<>>
    /\ hResult' = "none"
    /\ hPc' = "generate"
    /\ UNCHANGED hLanding

\* a task that stores remotely before it writes locally
AfterGenerate_memoryFirst(o) == IF o = "content" THEN "memory" ELSE "done"

\* where await callClaudeAPI leads: on to saveContent, or into the catch block
AfterGenerate(o) == IF o = "content" THEN "save" ELSE "done"

\* await callClaudeAPI(systemPrompt, userPrompt) settles
HourlyGenerate(o) ==
    /\ UNCHANGED <<pvars, cvars, dvars, tvars, svars, rvars, mvars, xvars, wvars, kvars>>
    /\ hPc = "generate"
    /\ hLog' = Append(hLog, "callClaudeAPI")
    /\ hPc' = AfterGenerate(o)
    /\ hResult' = IF o = "content" THEN hResult ELSE "failure"
    /\ UNCHANGED <<hDay, hRemaining, hLanding>>

\* saveContent: a synchronous write; when it throws, the catch block of
\* runHourlyUpdate returns the failure
saveContent(o) ==
    /\ UNCHANGED <<pvars, cvars, dvars, tvars, svars, rvars, mvars, xvars, wvars, kvars>>
    /\ hPc = "save"
    /\ hLog' = Append(hLog, IF o = "ok" THEN "saveContent" ELSE "saveContent failed")
    /\ hPc' = IF o = "ok" THEN "memory" ELSE "done"
    /\ hResult' = IF o = "ok" THEN hResult ELSE "failure"
    /\ UNCHANGED <<hDay, hRemaining, hLanding>>

\* await storeInMemory: it catches its own errors
storeInMemory(o) ==
    /\ UNCHANGED <<pvars, cvars, dvars, tvars, svars, rvars, mvars, xvars, wvars, kvars>>
    /\ hPc = "memory"
    /\ hLog' = Append(hLog, "storeInMemory")
    /\ hPc' = "landing"
    /\ UNCHANGED <<hDay, hRemaining, hLanding, hResult>>

\* updateLanding(day, daysRemaining, ...): a synchronous write
hourlyUpdateLanding(o) ==
    /\ UNCHANGED <<pvars, cvars, dvars, tvars, svars, rvars, mvars, xvars, wvars, kvars>>
    /\ hPc = "landing"
    /\ hLog' = Append(hLog, "updateLanding")
    /\ hLanding' = IF o = "ok"
                   THEN <<[currentDay |-> hDay, daysRemaining |-> hRemaining]>>
                   ELSE hLanding
    /\ hPc' = IF o = "ok" THEN "deploy" ELSE "done"
    /\ hResult' = IF o = "ok" THEN hResult ELSE "failure"
    /\ UNCHANGED <<hDay, hRemaining>>

\* await triggerDeploy(): its boolean is dropped, then success is returned
HourlyDeployed(o) ==
    /\ UNCHANGED <<pvars, cvars, dvars, tvars, svars, rvars, mvars, xvars, wvars, kvars>>
    /\ hPc = "deploy"
    /\ hLog' = Append(hLog, "triggerDeploy")
    /\ hPc' = "done"
    /\ hResult' = "success"
    /\ UNCHANGED <<hDay, hRemaining, hLanding>>

NextHourly ==
    \/ \E hours \in ElapsedHours, later \in {0, 1} : runHourlyUpdate(hours, later)
    \/ \E o \in {"content", "throw"} : HourlyGenerate(o)
    \/ \E o \in {"ok", "throw"} : saveContent(o)
    \/ \E o \in {"ok", "failed"} : storeInMemory(o)
    \/ \E o \in {"ok", "throw"} : hourlyUpdateLanding(o)
    \/ \E o \in {"true", "false"} : HourlyDeployed(o)

\* =========================================================================
\* Process entry point: health record and shutdown
\* =========================================================================
InitMain ==
    /\ xPc = "starting"
    /\ xInterval = FALSE
    /\ xHealth = <<>>
    /\ xBeats = 0
    /\ xLog = <<>>

\* writeHealthStatus: a new record, without shutdownAt
writeHealthStatus == <<[shutdownAt |-> FALSE]>>

\* main, steps 4 and 5: the first health record and the health interval
\* (step 6, startScheduler, follows in the same turn)
main ==
    /\ UNCHANGED <<pvars, cvars, dvars, tvars, svars, rvars, mvars, hvars, wvars, kvars>>
    /\ xPc = "starting"
    /\ xHealth' = writeHealthStatus
    /\ xInterval' = TRUE
    /\ xPc' = "up"
    /\ UNCHANGED <<xBeats, xLog>>

\* the signal handlers are registered after startScheduler has returned
Serving == xPc = "up" /\ sLast = "start"

\* updateHealthTimestamp, fired by the interval: the record is rewritten with
\* a new lastUpdate, or written anew when it cannot be read
updateHealthTimestamp(o) ==
    /\ UNCHANGED <<pvars, cvars, dvars, tvars, svars, rvars, mvars, hvars, wvars, kvars>>
    /\ Serving /\ xInterval
    /\ xBeats < MaxBeats
    /\ xHealth' = IF xHealth # <<>> /\ o = "ok" THEN xHealth ELSE writeHealthStatus
    /\ xBeats' = xBeats + 1
    /\ UNCHANGED <<xPc, xInterval, xLog>>

\* the object getMetrics() returns, as the partial saveState hands back to
\* updateMetrics
AllFields(v) ==
    [thingsShipped |-> <<v.thingsShipped>>, revenueTotal |-> <<v.revenueTotal>>,
     currentStrategy |-> <<v.currentStrategy>>,
     keyMetrics |-> <<[k \in MetricKeys |->
                         IF v.keyMetrics[k] = "absent" THEN "skip"
                         ELSE v.keyMetrics[k]]>>]

\* a shutdown that leaves the record as it is
markShutdown_unmarked(h) == h

\* data.shutdownAt = new Date().toISOString()
markShutdown(h) == [h EXCEPT !.shutdownAt = TRUE]

\* the shutdown handler, on SIGTERM or SIGINT. It runs in one turn: saveState
\* has no await of its own. disk and backup are what updateMetrics meets,
\* health whether the health record can be read and rewritten.
shutdown(signal, disk, backup, health) ==
    /\ UNCHANGED <<pvars, cvars, dvars, tvars, rvars, hvars, wvars, kvars>>
    /\ Serving
    \* clearInterval(healthInterval)
    /\ xInterval' = FALSE
    \* stopScheduler()
    /\ jobs' = [j \in 1..Len(jobs) |->
                  IF \E i \in 1..Len(tasks) : tasks[i].job = j
                  THEN [jobs[j] EXCEPT !.active = FALSE]
                  ELSE jobs[j]]
    /\ tasks' = <<>>
    /\ sLast' = "stop"
    /\ UNCHANGED <<starts, runs, sErrors, regLog>>
    \* saveState(): updateMetrics(getMetrics()), then the marker
    /\ UpdateStep(AllFields(getMetricsValue), disk, backup, FALSE)
    /\ UNCHANGED <<mUpdates, mIncs, mIncLog>>
    /\ IF disk = "throw"
       THEN /\ xPc' = "rejected"
            /\ xLog' = <<signal, "clearInterval", "stopScheduler", "updateMetrics failed">>
            /\ UNCHANGED xHealth
       ELSE /\ xPc' = "exited"
            /\ IF xHealth # <<>> /\ health = "ok"
               THEN /\ xHealth' = <<markShutdown(xHealth[1])>>
                    /\ xLog' = <<signal, "clearInterval", "stopScheduler",
                                 "updateMetrics", "shutdownAt", "exit">>
               ELSE /\ UNCHANGED xHealth
                    /\ xLog' = <<signal, "clearInterval", "stopScheduler",
                                 "updateMetrics", "exit">>
    /\ UNCHANGED xBeats

\* the process from its start to its exit: the scheduler is started once
NextMain ==
    \/ main
    \/ (xPc = "up" /\ starts = 0 /\ startScheduler)
    \/ \E o \in {"ok", "throw"} : updateHealthTimestamp(o)
    \/ (Serving /\ \E j \in 1..Len(jobs) : Fire(j))
    \/ \E signal \in {"SIGTERM", "SIGINT"}, disk \in {"ok", "throw"},
          backup \in {"ok", "none"}, health \in {"ok", "throw"} :
          shutdown(signal, disk, backup, health)

\* =========================================================================
\* First wake
\* =========================================================================
InitWake ==
    /\ wPc = "idle"
    /\ wFlag = FALSE
    /\ wWakes = 0
    /\ wGenerated = 0
    /\ wInits = 0
    /\ wSaves = 0
    /\ wLog = <<>>
    /\ wResult = "none"

\* hasFirstWakeCompleted
hasFirstWakeCompleted == wFlag

\* runFirstWake is called (at a start of the process): with the flag it
\* returns alreadyCompleted, without it it asks for the completion
runFirstWake ==
    /\ UNCHANGED <<pvars, cvars, dvars, tvars, svars, rvars, mvars, hvars, xvars, kvars>>
    /\ wPc = "idle"
    /\ wWakes < MaxWakes
    /\ wWakes' = wWakes + 1
    /\ wLog' = <<>>
    /\ IF hasFirstWakeCompleted
       THEN /\ wResult' = "already"
            /\ wPc' = "idle"
       ELSE /\ wResult' = "none"
            /\ wPc' = "generate"
    /\ UNCHANGED <<wFlag, wGenerated, wInits, wSaves>>

\* the synchronous steps after the completion, up to the one that throws
WakeSteps == <<"initializeTrackers", "saveFirstWakeContent", "updateLanding">>
DoneBefore(failing) ==
    IF failing = 0 THEN WakeSteps ELSE SubSeq(WakeSteps, 1, failing - 1)

\* await generateContent settles; with a completion the trackers are
\* initialised, the content is saved and the landing record written, unless
\* step number failing (1..3) throws into the catch block
WakeGenerate(o, failing) ==
    /\ UNCHANGED <<pvars, cvars, dvars, tvars, svars, rvars, mvars, hvars, xvars, kvars>>
    /\ wPc = "generate"
    /\ o = "throw" => failing = 0
    /\ IF o = "throw"
       THEN /\ wLog' = <<"generateContent failed">>
            /\ wResult' = "failed"
            /\ wPc' = "idle"
            /\ UNCHANGED <<wGenerated, wInits, wSaves>>
       ELSE /\ wGenerated' = wGenerated + 1
            /\ wLog' = <<"generateContent">> \o DoneBefore(failing)
            /\ wInits' = IF Len(DoneBefore(failing)) >= 1 THEN wInits + 1 ELSE wInits
            /\ wSaves' = IF Len(DoneBefore(failing)) >= 2 THEN wSaves + 1 ELSE wSaves
            /\ wResult' = IF failing = 0 THEN wResult ELSE "failed"
            /\ wPc' = IF failing = 0 THEN "store" ELSE "idle"
    /\ UNCHANGED <<wFlag, wWakes>>

\* await storeInMemory settles (it catches its own errors), then
\* markFirstWakeCompleted writes the flag file
WakeStored(mark) ==
    /\ UNCHANGED <<pvars, cvars, dvars, tvars, svars, rvars, mvars, hvars, xvars, kvars>>
    /\ wPc = "store"
    /\ IF mark = "ok"
       THEN /\ wFlag' = TRUE
            /\ wLog' = wLog \o <<"storeInMemory", "markFirstWakeCompleted">>
            /\ wPc' = "deploy"
            /\ UNCHANGED wResult
       ELSE /\ wLog' = Append(wLog, "storeInMemory")
            /\ wResult' = "failed"
            /\ wPc' = "idle"
            /\ UNCHANGED wFlag
    /\ UNCHANGED <<wWakes, wGenerated, wInits, wSaves>>

\* await triggerDeploy settles (it returns a boolean that is dropped)
WakeDeployed ==
    /\ UNCHANGED <<pvars, cvars, dvars, tvars, svars, rvars, mvars, hvars, xvars, kvars>>
    /\ wPc = "deploy"
    /\ wLog' = Append(wLog, "triggerDeploy")
    /\ wResult' = "completed"
    /\ wPc' = "idle"
    /\ UNCHANGED <<wFlag, wWakes, wGenerated, wInits, wSaves>>

NextWake ==
    \/ runFirstWake
    \/ \E o \in {"content", "throw"}, failing \in 0..3 : WakeGenerate(o, failing)
    \/ \E mark \in {"ok", "throw"} : WakeStored(mark)
    \/ WakeDeployed


\* =========================================================================
\* Local content store: safeWriteJson (content-writer)
\* =========================================================================
\* overlapping calls that write the same destination, e.g. updateLanding
Writers == 1..MaxWriters

\* JSON.stringify(data): the text of writer w's record; records differ in
\* length as well as in content
RecordOf(w) == [i \in 1..w |-> w]

\* a path holds no file (<<>>) or one file with its bytes (<<bytes>>)
NoFile == <<>>
FileOf(bytes) == <<bytes>>

InitStore ==
    /\ kPc = [w \in Writers |-> "idle"]
    /\ kTemp = NoFile
    /\ kDest = NoFile
    /\ kGen = 0
    /\ kFd = [w \in Writers |-> 0]
    /\ kText = [w \in Writers |-> <<>>]

\* write(fd, data) at offset 0 of a file that holds old: the bytes beyond
\* the data stay
WriteAt0(data, old) ==
    data \o SubSeq(old, Len(data) + 1, Len(old))

\* safeWriteJson: await ensureDir(filePath); tempPath = filePath + ".tmp",
\* the same path for every call with the same destination
safeWriteJson(w) ==
    /\ UNCHANGED <<pvars, cvars, dvars, tvars, svars, rvars, mvars, hvars, xvars, wvars>>
    /\ kPc[w] = "idle"
    /\ kPc' = [kPc EXCEPT ![w] = "openTemp"]
    /\ UNCHANGED <<kTemp, kDest, kGen, kFd, kText>>

\* writeFile(tempPath, json): open with flag "w" creates or truncates
TempOpen(w) ==
    /\ UNCHANGED <<pvars, cvars, dvars, tvars, svars, rvars, mvars, hvars, xvars, wvars>>
    /\ kPc[w] = "openTemp"
    /\ kTemp' = FileOf(<<>>)
    /\ kFd' = [kFd EXCEPT ![w] = kGen]
    /\ kPc' = [kPc EXCEPT ![w] = "writeTemp"]
    /\ UNCHANGED <<kDest, kGen, kText>>

\* writeFile(tempPath, json): the write on the opened descriptor; a file
\* unlinked since the open is no longer reachable by its path
TempWrite(w) ==
    /\ UNCHANGED <<pvars, cvars, dvars, tvars, svars, rvars, mvars, hvars, xvars, wvars>>
    /\ kPc[w] = "writeTemp"
    /\ kTemp' = IF kTemp # NoFile /\ kFd[w] = kGen
                THEN FileOf(WriteAt0(RecordOf(w), kTemp[1]))
                ELSE kTemp
    /\ kPc' = [kPc EXCEPT ![w] = "readTemp"]
    /\ UNCHANGED <<kDest, kGen, kFd, kText>>

\* await Bun.file(tempPath).text(): rejects with ENOENT when the file is gone
TempRead(w) ==
    /\ UNCHANGED <<pvars, cvars, dvars, tvars, svars, rvars, mvars, hvars, xvars, wvars>>
    /\ kPc[w] = "readTemp"
    /\ IF kTemp = NoFile
       THEN /\ kPc' = [kPc EXCEPT ![w] = "error"]
            /\ UNCHANGED kText
       ELSE /\ kText' = [kText EXCEPT ![w] = kTemp[1]]
            /\ kPc' = [kPc EXCEPT ![w] = "openDest"]
    /\ UNCHANGED <<kTemp, kDest, kGen, kFd>>

\* Bun.write(filePath, text): the destination is created or truncated
DestOpen(w) ==
    /\ UNCHANGED <<pvars, cvars, dvars, tvars, svars, rvars, mvars, hvars, xvars, wvars>>
    /\ kPc[w] = "openDest"
    /\ kDest' = FileOf(<<>>)
    /\ kPc' = [kPc EXCEPT ![w] = "writeDest"]
    /\ UNCHANGED <<kTemp, kGen, kFd, kText>>

\* Bun.write(filePath, text): the text read from the temp file is copied
DestWrite(w) ==
    /\ UNCHANGED <<pvars, cvars, dvars, tvars, svars, rvars, mvars, hvars, xvars, wvars>>
    /\ kPc[w] = "writeDest"
    /\ kDest' = FileOf(WriteAt0(kText[w], kDest[1]))
    /\ kPc' = [kPc EXCEPT ![w] = "exists"]
    /\ UNCHANGED <<kTemp, kGen, kFd, kText>>

\* (await Bun.file(tempPath).exists()) && ...unlink(tempPath): the unlink is
\* started but not awaited, so the call returns here either way
TempExists(w) ==
    /\ UNCHANGED <<pvars, cvars, dvars, tvars, svars, rvars, mvars, hvars, xvars, wvars>>
    /\ kPc[w] = "exists"
    /\ kPc' = [kPc EXCEPT ![w] = IF kTemp = NoFile THEN "done" ELSE "unlink"]
    /\ UNCHANGED <<kTemp, kDest, kGen, kFd, kText>>

\* the detached unlink(tempPath): rejects with ENOENT when another call has
\* removed the file, and nothing handles the rejection
TempUnlink(w) ==
    /\ UNCHANGED <<pvars, cvars, dvars, tvars, svars, rvars, mvars, hvars, xvars, wvars>>
    /\ kPc[w] = "unlink"
    /\ IF kTemp = NoFile
       THEN /\ kPc' = [kPc EXCEPT ![w] = "unhandled"]
            /\ UNCHANGED <<kTemp, kGen>>
       ELSE /\ kTemp' = NoFile
            /\ kGen' = kGen + 1
            /\ kPc' = [kPc EXCEPT ![w] = "done"]
    /\ UNCHANGED <<kDest, kFd, kText>>

NextStore ==
    \/ \E w \in Writers : safeWriteJson(w)
    \/ \E w \in Writers : TempOpen(w)
    \/ \E w \in Writers : TempWrite(w)
    \/ \E w \in Writers : TempRead(w)
    \/ \E w \in Writers : DestOpen(w)
    \/ \E w \in Writers : DestWrite(w)
    \/ \E w \in Writers : TempExists(w)
    \/ \E w \in Writers : TempUnlink(w)

\* =========================================================================
\* Specifications
\* =========================================================================
Init ==
    /\ InitProcessor /\ InitClient /\ InitDeploy /\ InitTaskLoops
    /\ InitScheduler /\ InitRunway /\ InitMetrics
    /\ InitHourly
    /\ InitMain
    /\ InitWake
    /\ InitStore

SpecProcessor == Init /\ [][NextProcessor]_vars
SpecClient == Init /\ [][NextClient]_vars
SpecDeploy == Init /\ [][NextDeploy]_vars
SpecTaskLoops == Init /\ [][NextTaskLoops]_vars
SpecRetryLoops == Init /\ [][NextRetryLoops]_vars
SpecScheduler == Init /\ [][NextScheduler]_vars
SpecHandlers == Init /\ [][NextHandlers]_vars
SpecRegister == Init /\ [][NextRegister]_vars
SpecRunway == Init /\ [][NextRunway]_vars
SpecMetrics == Init /\ [][NextMetrics]_vars
SpecShipped == Init /\ [][NextShipped]_vars
SpecHourly == Init /\ [][NextHourly]_vars
SpecMain == Init /\ [][NextMain]_vars
SpecWake == Init /\ [][NextWake]_vars
SpecStore == Init /\ [][NextStore]_vars


\* =========================================================================
\* Properties of the output processor
\* =========================================================================
ContentCall == pKind \in {"hourly", "journal"}
Returned == pPc = "done"

\* the content argument is undefined, empty or made of whitespace only
IsBlank(c) == c = Missing \/ \A i \in 1..Len(c) : c[i] \in Whitespace

Calls(f) == CountIn(callLog, LAMBDA x : x = f)
StageFailed(name) == \E i \in 1..Len(stageLog) : stageLog[i] = Stage(name, FALSE)
StageOk(name) == \E i \in 1..Len(stageLog) : stageLog[i] = Stage(name, TRUE)
FailedStages == CountIn(stageLog, LAMBDA x : ~x.ok)

\* C1: every result returned by processHourlyOutput or processJournalOutput,
\* the early aborts included, has success equal to localSaved.
C1_SuccessIsLocalSaved ==
    (Returned /\ ContentCall) => result.success = result.localSaved

\* a content call that returned with the local write done although a
\* best-effort stage failed
C1_Witness ==
    /\ Returned /\ ContentCall
    /\ result.success /\ result.localSaved /\ result.errors # <<>>

\* C2: on a missing, empty or whitespace-only content the content pipelines
\* return the all-false result with the single error "Empty response ..." and
\* invoke no dependency.
C2_EmptyContentAborts ==
    (Returned /\ ContentCall /\ IsBlank(response.content)) =>
        /\ result = createFailedResult(<<EmptyResponseMsg>>)
        /\ callLog = <<>>

C2_Witness ==
    /\ Returned /\ ContentCall
    /\ response.content = <<" ">>
    /\ result.errors = <<EmptyResponseMsg>>

\* C3: when the local content write fails, the memory store, the landing
\* update and the deploy trigger are each still invoked exactly once, and the
\* result has success = localSaved = false and an error for the local save.
C3_LocalFailureContinues ==
    (Returned /\ ContentCall /\ StageFailed("local")) =>
        /\ Calls("storeHourlyUpdate") + Calls("storeDailyJournal") = 1
        /\ Calls("updateLanding") = 1
        /\ Calls("triggerDeploy") = 1
        /\ ~result.success
        /\ ~result.localSaved
        /\ \E i \in 1..Len(result.errors) :
              result.errors[i] = "Local save failed: Disk full"

C3_Witness ==
    /\ Returned /\ ContentCall /\ StageFailed("local")
    /\ result.memorySaved /\ result.metricsUpdated /\ result.deployed

\* C4: when the local write succeeds, success is true whatever the best-effort
\* stages do, and each of memorySaved, metricsUpdated and deployed is true
\* exactly when its own stage succeeded.
C4_BestEffortOwnFlagOnly ==
    (Returned /\ ContentCall /\ StageOk("local")) =>
        /\ result.success
        /\ result.memorySaved = StageOk("memory")
        /\ result.metricsUpdated = StageOk("landing")
        /\ result.deployed = StageOk("deploy")

C4_Witness ==
    /\ Returned /\ ContentCall /\ StageOk("local")
    /\ StageFailed("memory") /\ StageOk("landing") /\ StageFailed("deploy")
    /\ result.success

\* C5: in every pipeline the returned errors array has exactly one entry per
\* attempted stage that failed (by throwing or by an unsuccessful result), so
\* it is empty exactly when every attempted stage succeeded.
C5_OneErrorPerFailedStage ==
    Returned => Len(result.errors) = FailedStages

\* C6: when the gather-status stage fails the content pipeline returns the
\* all-false result with a single error and never invokes the content writer,
\* the memory store or the deploy trigger.
C6_GatherFailureAborts ==
    (Returned /\ ContentCall /\ StageFailed("gather")) =>
        /\ \E msg \in {"Status unavailable", "Metrics unavailable"} :
              result = createFailedResult(<<msg>>)
        /\ \A i \in 1..Len(callLog) : callLog[i] \in {"getRunwayStatus", "getMetrics"}

C6_Witness ==
    /\ Returned /\ ContentCall /\ StageFailed("gather")
    /\ result.errors = <<"Metrics unavailable">>

\* C7: no call of processHourlyOutput, processJournalOutput or
\* processActivityOutput throws outward.
C7_NeverThrows == pPc # "thrown"


\* =========================================================================
\* Properties of the completion client
\* =========================================================================
ClientSettled == cPc \in {"returned", "raised"}
Failed(o) == o.kind = "throw"
AllFailed == \A i \in 1..Len(cOutcomes) : Failed(cOutcomes[i])

\* C8: when every attempt fails, generateContent invokes the transport exactly
\* 3 times and raises a ClaudeClientError whose cause is the error of the
\* third attempt (as an Error instance); it raises in no other case.
C8_RaisesAfterThreeFailures ==
    /\ (ClientSettled /\ AllFailed) =>
          /\ cPc = "raised"
          /\ Len(cOutcomes) = 3
          /\ Len(cRaised) = 1
          /\ cRaised[1].cause = AsError(cOutcomes[3].error)
          /\ cOutcomes[3].error.isError => cRaised[1].cause = cOutcomes[3].error
    /\ cPc = "raised" => AllFailed

\* three failures with different errors: the cause is the third, not the first
C8_Witness ==
    /\ cPc = "raised"
    /\ Len(cOutcomes) = 3
    /\ cOutcomes[3].error.isError
    /\ cOutcomes[1].error # cOutcomes[3].error
    /\ cOutcomes[2].error # cOutcomes[3].error
    /\ cRaised[1].cause = cOutcomes[3].error

\* C9: when the transport first succeeds on attempt k, generateContent has
\* invoked it exactly k times (k <= 3), has slept 1000 * 2^(i-1) ms after each
\* failed attempt i < k and returns the response; no invocation follows a
\* success, and fail-fail-succeed waits at least 3000 ms.
C9_RetryThenReturn ==
    /\ \A i \in 1..(Len(cOutcomes) - 1) : Failed(cOutcomes[i])
    /\ (cOutcomes # <<>> /\ ~Failed(cOutcomes[Len(cOutcomes)])) => cPc = "returned"
    /\ cPc = "returned" =>
          LET k == Len(cOutcomes)
          IN /\ k \in 1..3
             /\ ~Failed(cOutcomes[k])
             /\ Len(cSleeps) = k - 1
             /\ \A i \in 1..(k - 1) : cSleeps[i] = 1000 * 2 ^ (i - 1)
             /\ k = 3 => cSleeps[1] + cSleeps[2] >= 3000
             /\ cResult = <<[content |-> IF cOutcomes[k].kind = "text"
                                         THEN "text" ELSE ""]>>

C9_Witness ==
    /\ cPc = "returned"
    /\ Len(cOutcomes) = 3
    /\ cSleeps = <<1000, 2000>>
    /\ cResult = <<[content |-> "text"]>>

\* =========================================================================
\* Properties of the deploy trigger
\* =========================================================================
Is2xx(o) == ~o.rejected /\ o.ok
Some2xx == \E i \in 1..Len(dOutcomes) : Is2xx(dOutcomes[i])
First2xx ==
    CHOOSE i \in 1..Len(dOutcomes) :
        Is2xx(dOutcomes[i]) /\ \A j \in 1..(i - 1) : ~Is2xx(dOutcomes[j])

\* C10: when the first 2xx response arrives on call k, triggerDeploy returns
\* true after exactly k transport calls, having waited 1000 * 2^(n-1) ms after
\* each failed attempt n < k.
C10_TrueOnFirst2xx ==
    (dPc = "returned" /\ Some2xx) =>
        /\ dResult = TRUE
        /\ Len(dOutcomes) = First2xx
        /\ Len(dSleeps) = First2xx - 1
        /\ \A n \in 1..Len(dSleeps) : dSleeps[n] = 1000 * 2 ^ (n - 1)

\* C11: triggerDeploy never throws: when every call is rejected or answered
\* with a non-2xx status it returns false after exactly 3 transport calls,
\* having slept twice (never after the third call), and no failure of a call
\* leaves the function as an exception.
C11_FalseAfterThreeFailures ==
    /\ dPc \in {"idle", "fetch", "delay", "returned"}
    /\ (dPc = "returned" /\ ~Some2xx) =>
          /\ dResult = FALSE
          /\ Len(dOutcomes) = 3
          /\ dSleeps = <<1000, 2000>>
    /\ dPc = "delay" => Len(dOutcomes) < 3

\* a rejection, a non-2xx response and a rejection: false after three calls
C11_Witness ==
    /\ dPc = "returned"
    /\ Len(dOutcomes) = 3
    /\ dOutcomes[1].rejected
    /\ ~dOutcomes[2].rejected /\ ~dOutcomes[2].ok
    /\ dOutcomes[3].rejected
    /\ dResult = FALSE
    /\ Len(dSleeps) = 2

\* C12: any 2xx response is a success: the call that receives it is the last
\* transport call and triggerDeploy returns true, whether or not the body is
\* JSON or names a job.
C12_Any2xxIsSuccess ==
    \A i \in 1..Len(dOutcomes) :
        Is2xx(dOutcomes[i]) =>
            /\ i = Len(dOutcomes)
            /\ dPc = "returned"
            /\ dResult = TRUE

\* =========================================================================
\* Properties of the completion client: the raised flag, the empty content
\* =========================================================================
\* C14: when generateContent has exhausted its attempts, the rate-limit flag
\* of the raised error equals the classification of the value thrown by the
\* last attempt.
C14_FlagIsLastClassification ==
    cPc = "raised" =>
        cRaised[1].isRateLimitError =
            isRateLimitError(cOutcomes[Len(cOutcomes)].error)

\* C15: a successful response without a text block ends the call at once with
\* content "": it is the last invocation, no sleep follows it, and when it is
\* the first response the transport was invoked exactly once.
C15_NoTextIsEmptyContent ==
    \A i \in 1..Len(cOutcomes) :
        cOutcomes[i].kind = "notext" =>
            /\ i = Len(cOutcomes)
            /\ cPc = "returned"
            /\ cResult = <<[content |-> ""]>>
            /\ Len(cSleeps) = i - 1
            /\ cRaised = <<>>

C15_Witness ==
    /\ cPc = "returned"
    /\ Len(cOutcomes) = 1
    /\ cOutcomes[1].kind = "notext"
    /\ cResult = <<[content |-> ""]>>
    /\ cSleeps = <<>>

\* =========================================================================
\* Properties of the retry loops
\* =========================================================================
\* a loop that made calls transport invocations and sleeps backoff sleeps and
\* is at position pc stays within 3 invocations and 2 sleeps, sleeps only
\* between invocations, and has settled once the third invocation was made
LoopBounded(calls, sleeps, pc, settled) ==
    /\ calls <= 3
    /\ sleeps <= 2
    /\ sleeps <= calls
    /\ calls = 3 => pc \in settled
    /\ (pc \in settled /\ calls > 0) => sleeps = calls - 1

\* C13: each call of generateContent, triggerDeploy, callClaudeAPI, the
\* hourly task's triggerDeploy and decideActivity makes at most 3 transport
\* invocations and at most 2 backoff sleeps and then returns or raises.
C13_LoopsBounded ==
    /\ LoopBounded(Len(cOutcomes), Len(cSleeps), cPc, {"returned", "raised"})
    /\ LoopBounded(Len(dOutcomes), Len(dSleeps), dPc, {"returned"})
    /\ LoopBounded(Len(tOutcomes), Len(tSleeps), tPc, {"returned", "raised"})

\* decideActivity raised after three failed passes, one of them a response
\* that parseResponse rejected
C13_Witness ==
    /\ tFn = "decideActivity"
    /\ tPc = "raised"
    /\ tOutcomes = <<"throw", "invalid", "notext">>
    /\ tSleeps = <<1000, 2000>>

\* =========================================================================
\* Properties of the scheduler
\* =========================================================================
Caught(i) == runs[i].pc = "caught"
Sleeping(i) == runs[i].pc = "sleep"
ActiveJobs == {j \in 1..Len(jobs) : jobs[j].active}
RegistryJobs == {tasks[k].job : k \in 1..Len(tasks)}

\* C16: a handler's error is caught by the wrapper: every wrapped invocation
\* that has ended has resolved (completed, or failure caught and logged),
\* and after a failure the job of every registered task is still active and
\* can fire again.
C16_HandlerErrorsCaught ==
    /\ \A i \in 1..Len(runs) :
          runs[i].pc \in {"running", "sleep", "completed", "caught"}
    /\ (\E i \in 1..Len(runs) : Caught(i)) =>
          \A j \in RegistryJobs :
              /\ j \in ActiveJobs
              /\ Len(runs) < MaxRuns => ENABLED Fire(j)

\* a task whose handler failed fired again afterwards and failed again, both
\* failures caught
C16_Witness ==
    /\ Len(runs) = 2
    /\ Caught(1) /\ Caught(2)
    /\ runs[2].name = runs[1].name
    /\ runs[1].name \in runs[2].failedBefore

\* C17: once stopScheduler has returned, getSchedulerStatus() is empty, no
\* cron job created by an earlier startScheduler is still active, and no
\* handler is started while the scheduler is stopped.
C17_StopCancelsEveryTimer ==
    /\ sLast = "stop" => (getSchedulerStatus = <<>> /\ ActiveJobs = {})
    /\ \A i \in 1..Len(runs) : ~runs[i].stopped

\* C18: whenever startScheduler was the last call, getSchedulerStatus() has
\* exactly the seven configured tasks, each name once with its expression.
C18_StatusIsTheSevenTasks ==
    sLast = "start" =>
        /\ Len(getSchedulerStatus) = 7
        /\ {getSchedulerStatus[i] : i \in 1..Len(getSchedulerStatus)}
              = {ConfiguredTasks[i] : i \in 1..7}

\* C19: registerTask with an invalid cron expression logs an error and leaves
\* the registry as it was; no entry of the registry, no line of the status
\* and no cron job ever carries an invalid expression.
C19_InvalidCronRejected ==
    /\ \A r \in 1..Len(regLog) :
          ~validate(regLog[r].schedule) =>
              ~regLog[r].changed /\ regLog[r].logged
    /\ Len(sErrors) = Cardinality({r \in 1..Len(regLog) :
                                     ~validate(regLog[r].schedule)})
    /\ \A k \in 1..Len(tasks) : validate(tasks[k].schedule)
    /\ \A k \in 1..Len(getSchedulerStatus) :
          validate(getSchedulerStatus[k].schedule)
    /\ \A j \in 1..Len(jobs) : validate(jobs[j].schedule)

\* an hour out of range was rejected, a valid expression registered, and the
\* scheduler started: eight timers, none for the rejected task
C19_Witness ==
    /\ Len(regLog) = 2
    /\ regLog[1] = [name |-> "custom",
                     schedule |-> <<Num(0), Num(24), Star, Star, Star>>,
                     changed |-> FALSE, logged |-> TRUE]
    /\ regLog[2].changed
    /\ sLast = "start"
    /\ Len(jobs) = 8
    /\ \A j \in 1..Len(jobs) : jobs[j].name # "custom"
    /\ Len(sErrors) = 1

\* C20: while a handler is suspended in a backoff sleep, the job of every
\* other task can still fire (as long as invocations are followed) and every
\* running handler can run to completion.
C20_SleepBlocksNobody ==
    \A a \in 1..Len(runs) :
        Sleeping(a) =>
            /\ Len(runs) < MaxRuns =>
                  \A j \in ActiveJobs :
                      jobs[j].name # runs[a].name => ENABLED Fire(j)
            /\ \A b \in 1..Len(runs) :
                  runs[b].pc = "running" => ENABLED HandlerReturn(b)

\* another task was fired while the hourly update slept and has completed;
\* the hourly update is still in that sleep
C20_Witness ==
    /\ Len(runs) = 2
    /\ runs[1].name = "hourlyUpdate" /\ Sleeping(1)
    /\ runs[2].name = "healthCheck"
    /\ runs[2].pc = "completed"
    /\ 1 \in runs[2].overtook

\* =========================================================================
\* Properties of the decision pipeline
\* =========================================================================
ActivityCall == pKind = "activity"
IsDocument(r) == r.form \in {"json", "fenced"}
Doc == response.doc
Items == Doc.activities.items

\* the response is a document with an activity whose type is outside the enum
HasForeignType ==
    /\ IsDocument(response)
    /\ \E i \in 1..Len(Items) : Items[i].type \notin ActivityTypes

\* C21: when parsing or validation of the decision fails (as it does for an
\* activity type outside the enum), processActivityOutput returns the
\* all-false result with decision undefined and exactly one error, and calls
\* neither the memory store nor the metrics tracker.
C21_InvalidDecisionAborts ==
    (ActivityCall /\ pPc \in {"learning", "strategy", "done", "thrown"}) =>
        /\ HasForeignType => StageFailed("parse")
        /\ StageFailed("parse") =>
              /\ Returned
              /\ Len(result.errors) = 1
              /\ result = createFailedResult(result.errors)
              /\ result.decision = <<>>
              /\ callLog = <<>>

C21_Witness ==
    /\ ActivityCall /\ Returned
    /\ IsDocument(response)
    /\ Len(Items) = 1 /\ Items[1].type = "DANCE"
    /\ Items[1].action # "" /\ Items[1].reasoning # ""
    /\ Doc.urgency_assessment # "undefined"
    /\ Doc.confidence_in_strategy.isNumber
    /\ result.errors = <<"Failed to parse activity decision JSON: Invalid activity type">>

\* C22: processActivityOutput returns success = true only for a document with
\* a non-empty activities array whose every element has a type of the enum, a
\* non-empty action and reasoning and a positive duration_minutes, a string
\* urgency_assessment and a numeric confidence_in_strategy.
C22_SuccessOnlyIfValid ==
    (ActivityCall /\ Returned /\ result.success) =>
        /\ IsDocument(response)
        /\ Doc.activities.isArray
        /\ Items # <<>>
        /\ \A i \in 1..Len(Items) :
              /\ Items[i].type \in ActivityTypes
              /\ Items[i].action # ""
              /\ Items[i].reasoning # ""
              /\ Items[i].duration_minutes > 0
        /\ Doc.urgency_assessment # "undefined"
        /\ Doc.confidence_in_strategy.isNumber

\* the decision was valid and step 2 of processActivityOutput is over
PastLearning ==
    ActivityCall /\ StageOk("parse") /\ pPc \in {"strategy", "done", "thrown"}
\* processActivityOutput has ended
PastStrategy == ActivityCall /\ pPc \in {"done", "thrown"}

\* C23 as stated: on a valid decision storeStrategicLearning is called once
\* exactly when confidence_in_strategy < 0.5 and the document has a
\* strategy_notes member; otherwise the memory store is not called.
C23_LearningWhenLowAndPresent ==
    PastLearning =>
        Calls("storeStrategicLearning") =
            IF /\ Doc.confidence_in_strategy.value < 50
               /\ Doc.strategy_notes.type # "undefined"
            THEN 1 ELSE 0

\* C23 amended: on a valid decision storeStrategicLearning is called once
\* exactly when confidence_in_strategy < 0.5 and strategy_notes is present
\* and not the empty string; otherwise the memory store is not called.
C23_LearningWhenLowAndNonEmpty ==
    PastLearning =>
        /\ Calls("storeStrategicLearning") =
              IF /\ Doc.confidence_in_strategy.value < 50
                 /\ Doc.strategy_notes.type # "undefined"
                 /\ Doc.strategy_notes.text # <<>>
              THEN 1 ELSE 0
        /\ \A i \in 1..Len(callLog) :
              callLog[i] \in {"storeStrategicLearning", "setStrategy"}

\* confidence 0.49 with notes: stored, and the strategy is left alone
C23_Witness ==
    /\ ActivityCall /\ Returned
    /\ Doc.confidence_in_strategy.value = 49
    /\ Doc.strategy_notes.text = <<"time", "to", "pivot">>
    /\ callLog = <<"storeStrategicLearning">>
    /\ result.memorySaved

\* C24: on a valid decision setStrategy is called once exactly when
\* strategy_notes mentions "pivot" in any case and confidence_in_strategy is
\* below 0.4; in every other case it is not called.
C24_StrategyOnlyOnLowPivot ==
    PastStrategy /\ StageOk("parse") =>
        Calls("setStrategy") =
            IF /\ Doc.strategy_notes.type = "string"
               /\ \E i \in 1..Len(Doc.strategy_notes.text) :
                     Doc.strategy_notes.text[i] \in {"pivot", "Pivot", "PIVOT"}
               /\ Doc.confidence_in_strategy.value < 40
            THEN 1 ELSE 0

\* an upper-case PIVOT at confidence 0.39: the strategy is overwritten
C24_Witness ==
    /\ ActivityCall /\ Returned
    /\ Doc.confidence_in_strategy.value = 39
    /\ Doc.strategy_notes.text = <<"PIVOT", "now">>
    /\ Calls("setStrategy") = 1
    /\ result.metricsUpdated

\* C25: for every input processActivityOutput invokes no content-writer and
\* no deploy function and returns a result with localSaved = deployed = false
\* whose success says whether the response parsed and validated, whatever
\* the best-effort writes did.
C25_DecisionTouchesNoContent ==
    /\ ActivityCall =>
          \A i \in 1..Len(callLog) :
              callLog[i] \in {"storeStrategicLearning", "setStrategy"}
    /\ PastStrategy =>
          /\ Returned
          /\ ~result.localSaved
          /\ ~result.deployed
          /\ result.success = StageOk("parse")


\* =========================================================================
\* Properties of the runway tracker and the urgency functions
\* =========================================================================
\* C26: each of the three urgency functions returns critical below 3 days,
\* urgent from 3 and below 7, focused from 7 and below 14, and comfortable
\* from 14 days on.
C26_CutoffsAtThreeSevenFourteen ==
    LET claimed == IF uDays < 3 THEN "critical"
                   ELSE IF uDays < 7 THEN "urgent"
                   ELSE IF uDays < 14 THEN "focused"
                   ELSE "comfortable"
    IN  \A f \in DOMAIN uLevel : uLevel[f] # "none" => uLevel[f] = claimed

\* what getRunwayDays has to return by the claim: the last n written, the
\* configured value when nothing was written
LastWritten == IF rLast # <<>> THEN rLast[1] ELSE Finite(rConfig[1])

UpdateReturned == mCall.returned # <<>>

\* C28: an updateMetrics(partial) that returns has replaced exactly the scalar
\* fields present in partial, kept the others, and overlaid partial.keyMetrics
\* on the previous keyMetrics, keeping the keys it does not mention; what it
\* returned is what a getMetrics() made right after it returns.
C28_UpdateMergesAndReturnsCurrent ==
    UpdateReturned =>
        LET p == mCall.partial
            b == mCall.before[1]
            r == mCall.returned[1]
        IN  /\ r.thingsShipped =
                 IF p.thingsShipped # <<>> THEN p.thingsShipped[1] ELSE b.thingsShipped
            /\ r.revenueTotal =
                 IF p.revenueTotal # <<>> THEN p.revenueTotal[1] ELSE b.revenueTotal
            /\ r.currentStrategy =
                 IF p.currentStrategy # <<>> THEN p.currentStrategy[1] ELSE b.currentStrategy
            /\ \A k \in MetricKeys :
                 r.keyMetrics[k] =
                    IF p.keyMetrics # <<>> /\ p.keyMetrics[1][k] # "skip"
                    THEN p.keyMetrics[1][k] ELSE b.keyMetrics[k]
            /\ getMetricsValue = r

\* an update that names only k2 was made on a record that had k1 and a revenue
C28_Witness ==
    /\ UpdateReturned
    /\ mCall.partial = [NoFields EXCEPT !.keyMetrics = <<Overlay("k2", "b")>>]
    /\ mCall.before[1].keyMetrics["k1"] = "a"
    /\ mCall.before[1].revenueTotal = 5
    /\ mCall.returned[1].keyMetrics = [k1 |-> "a", k2 |-> "b"]
    /\ mCall.returned[1].revenueTotal = 5

\* C29: what a caller writes into the object getMetrics gave it, keyMetrics
\* included, never shows in what getMetrics returns later nor in the file.
C29_MutationStaysWithCaller ==
    /\ getMetricsValue.currentStrategy # "mutated"
    /\ \A k \in MetricKeys : getMetricsValue.keyMetrics[k] # "mutated"
    /\ mFile # <<>> =>
          /\ mFile[1].currentStrategy # "mutated"
          /\ \A k \in MetricKeys : mFile[1].keyMetrics[k] # "mutated"

C35_StagesInOrder ==
    (ContentCall /\ StageOk("gather")) =>
        LET order == IF pKind = "hourly"
                     THEN <<"writeHourlyUpdate", "storeHourlyUpdate",
                            "updateLanding", "triggerDeploy">>
                     ELSE <<"writeDailyJournal", "storeDailyJournal",
                            "updateLanding", "triggerDeploy">>
            made == SubSeq(callLog, 3, Len(callLog))
        IN  /\ Len(made) <= 4
            /\ \A i \in 1..Len(made) : made[i] = order[i]
            /\ Len(stageLog) = 2 + Len(made)
            /\ Returned => Len(made) = 4

\* a journal call went through the four stages although its local write failed
C35_Witness ==
    /\ Returned
    /\ pKind = "journal"
    /\ StageFailed("local")
    /\ callLog = <<"getRunwayStatus", "getMetrics", "writeDailyJournal",
                   "storeDailyJournal", "updateLanding", "triggerDeploy">>

\* C37: while an invocation of a task is in flight, the job of the same task
\* can fire again (as long as invocations are followed), so two invocations
\* of one task can be in flight at once.
C37_SameTaskFiresAgain ==
    \A a \in 1..Len(runs) :
        (InFlight(a) /\ Len(runs) < MaxRuns) =>
            \A j \in ActiveJobs : jobs[j].name = runs[a].name => ENABLED Fire(j)

\* the hourly update was fired again while its first invocation slept
C37_Witness ==
    /\ Len(runs) = 2
    /\ runs[1].name = "hourlyUpdate" /\ runs[2].name = "hourlyUpdate"
    /\ Sleeping(1) /\ runs[2].pc = "running"
    /\ 1 \in runs[2].overtook

\* C38: when an updateMetrics call is over, whether it returned or its disk
\* write threw, the cached record equals the record in the file.
C38_CacheEqualsFile ==
    mCall.before # <<>> =>
        /\ mFile # <<>>
        /\ mCache # <<>>
        /\ ViewIn(mCache[1], mHeap) = mFile[1]

\* C40: a response that decideActivity received and that fails parsing or
\* validation ends the call: the error is raised and no further request to
\* the completion service is made.
C40_ValidationFailureNotRetried ==
    tFn = "decideActivity" =>
        \A i \in 1..Len(tOutcomes) :
            tOutcomes[i] = "invalid" => (i = Len(tOutcomes) /\ tPc = "raised")

\* =========================================================================
\* Properties of the hourly update task
\* =========================================================================
\* C33: every landing record the hourly task writes has currentDay >= 1,
\* daysRemaining >= 0 and currentDay + daysRemaining <= 100.
C33_LandingDaysInRange ==
    hLanding # <<>> =>
        /\ hLanding[1].currentDay >= 1
        /\ hLanding[1].daysRemaining >= 0
        /\ hLanding[1].currentDay + hLanding[1].daysRemaining <= TOTAL_DAYS

\* C34: runHourlyUpdate writes the content locally before it makes any
\* memory-store or deploy request, and makes the memory-store request before
\* the deploy request.
C34_LocalThenMemoryThenDeploy ==
    \A i \in 1..Len(hLog) :
        /\ hLog[i] \in {"storeInMemory", "triggerDeploy"} =>
              \E j \in 1..(i - 1) : hLog[j] = "saveContent"
        /\ hLog[i] = "triggerDeploy" =>
              \E j \in 1..(i - 1) : hLog[j] = "storeInMemory"

\* a call went through to the deploy request
C34_Witness ==
    /\ hResult = "success"
    /\ hLog = <<"callClaudeAPI", "saveContent", "storeInMemory", "updateLanding",
                "triggerDeploy">>

\* C36: when the local write of runHourlyUpdate fails, the memory store, the
\* landing update and the deploy are still attempted and the call returns a
\* failure.
C36_HourlyLocalFailureContinues ==
    (hPc = "done" /\ \E i \in 1..Len(hLog) : hLog[i] = "saveContent failed") =>
        /\ hResult = "failure"
        /\ \A f \in {"storeInMemory", "updateLanding", "triggerDeploy"} :
              \E i \in 1..Len(hLog) : hLog[i] = f

\* =========================================================================
\* Properties of the shutdown
\* =========================================================================
\* the shutdown handler went through to process.exit(0)
Exited == xPc = "exited"

\* the handler stopped the interval and the scheduler before anything else,
\* and nothing can write a heartbeat or fire a job afterwards
StoppedFirst ==
    /\ SubSeq(xLog, 2, 3) = <<"clearInterval", "stopScheduler">>
    /\ xLog[Len(xLog)] = "exit"
    /\ ~xInterval
    /\ ActiveJobs = {}
    /\ \A o \in {"ok", "throw"} : ~ENABLED updateHealthTimestamp(o)
    /\ \A j \in 1..Len(jobs) : ~ENABLED Fire(j)

C32_FirstWakeAtMostOnce ==
    /\ wGenerated <= 1
    /\ wInits <= 1
    /\ wSaves <= 1
    /\ wResult = "already" => wLog = <<>>


\* =========================================================================
\* Properties of the local content store
\* =========================================================================
\* every call has settled and no unlink is left in flight
AllReturned == \A w \in Writers : kPc[w] \in {"done", "error", "unhandled"}

\* C39: when writes to the same destination interleave, every one of them
\* completes without error and the file ends up holding the complete record
\* of exactly one of them
C39_InterleavedWritesAtomic ==
    AllReturned =>
        /\ \A w \in Writers : kPc[w] # "error"
        /\ \E w \in Writers : kDest = FileOf(RecordOf(w))

====
